---- MODULE Spec2Model ----
(***************************************************************************)
(* Verification model of the fuego-cloud (nexo-cloud) control plane.       *)
(*                                                                         *)
(* The sub-systems are modelled each with its own specification:           *)
(*   SpecDB     - the deployment-create and rollback HTTP handlers over    *)
(*                the apps / deployments tables;                           *)
(*   SpecLogs   - the SSE log stream: handler, StreamLogs, pod producers;  *)
(*   SpecDeploy - the cluster driver's Deploy over the five resources;     *)
(*   SpecOAuth  - the GitHub OAuth callback over the oauth_states table;   *)
(*   SpecToken  - authentication of requests that carry an API token;      *)
(*   SpecTenant - the per-owner app, domain and deployment endpoints;      *)
(*   SpecRate   - the per-IP rate limit middleware and its sweeper;        *)
(*   SpecBurst  - one bucket of the configured limiter (100/s, burst 200); *)
(*   SpecOps    - the app management endpoints: create and update an app,  *)
(*                add a domain, create a deployment, scale, restart, env;  *)
(*   SpecHealth - GET /api/health over the database and the cluster;       *)
(*   SpecRows   - the UPDATE statements on a deployment row;               *)
(*   SpecChain  - the middleware stack a request passes on its way to the  *)
(*                handler;                                                 *)
(*   SpecDeployConcurrent - Deploy with calls that overlap.                *)
(* FairSpecDB, FairSpecLogs and FairSpecRate add the fairness that the     *)
(* scheduling of the handlers, the producers and the sweeper provides.     *)
(***************************************************************************)
EXTENDS Integers, Sequences, FiniteSets, TLC

(***************************************************************************)
(* Bounds                                                                  *)
(***************************************************************************)
\* number of concurrent HTTP requests against the deployment endpoints
MaxReqs == 2
\* number of deployments an app may already have when the requests arrive
MaxInitDeps == 2
\* number of database calls that may fail
MaxDbFaults == 1

Apps == {"a1", "a2"}
Images == {"img1", "img2"}
Reqs == 1..MaxReqs

\* uuid.Nil / SQL NULL for a deployment id
NilID == 0

(***************************************************************************)
(* State                                                                   *)
(***************************************************************************)
VARIABLES
    deployments,   \* the deployments table: sequence of rows, id = position
    appsTbl,       \* the apps table: app -> [status, deployment_count, current_deployment_id]
    hpc,           \* position of each request handler
    hloc,          \* local variables of each request handler
    dbFaults,      \* number of database calls that have failed so far
    ctxDone,       \* the log stream's context has been cancelled
    logCh,         \* buffered content of the log output channel
    closeCount,    \* number of times close(logCh) has run
    errCh,         \* producers whose error is waiting in StreamLogs' error channel
    ppc,           \* position of each per-pod producer goroutine
    pread,         \* number of lines each producer has read from its pod stream
    spc,           \* position of the goroutine running StreamLogs and close(logCh)
    cpc,           \* position of the SSE handler loop
    delivered,     \* frames the SSE handler has written to the client
    logFaults,     \* number of cluster calls of the log stream that have failed
    cluster,       \* the five objects of the app in the cluster, by kind
    dpc,           \* position of each Deploy caller
    dloc,          \* local variables, result and call history of each Deploy caller
    ncalls,        \* number of Deploy calls started so far
    k8sFaults,     \* number of cluster API calls of Deploy that have failed
    now,           \* the wall clock, in whole time units
    oauthStates,   \* the oauth_states table: state -> row, or NoRow
    issued,        \* state values the login handler has generated so far
    users,         \* github ids that have a row in the users table
    opc,           \* position of each OAuth callback request
    oloc,          \* local variables and response of each OAuth callback request
    oauthFaults,   \* number of oauth_states statements that have failed
    apiTokens,     \* the api_tokens table: token -> row, or NoToken
    qpc,           \* position of each request that authenticates with an API token
    qloc,          \* local variables and response of each such request
    ownedApps,     \* the apps table with its owners: rows [id, user, name]
    domainsTbl,    \* the domains table: rows [id, domain, app]
    depRows,       \* the deployments of the owners' apps: rows [id, app]
    nextID,        \* the next row id the database hands out
    nweb,          \* number of requests against the app endpoints so far
    apc,           \* position of each request against the app endpoints
    aloc,          \* local variables and answer of each such request
    visitors,      \* the rate limiter's map: address -> [limiter, lastSeen], or NoVisitor
    limiters,      \* the rate.Limiter objects created so far: [tokens, last]
    nrate,         \* number of requests that have reached the rate limiter
    rpc,           \* position of each request in the rate limit middleware
    rloc,          \* local variables and answer of each such request
    bnow,          \* the instant of the burst, in 1/TicksPerSecond seconds
    blim,          \* the client's rate.Limiter: [tokens, last]
    bsent,         \* number of requests the client has sent
    bdenied,       \* some request was answered 429 with Retry-After: 1
    opsApps,       \* apps rows of the management endpoints
    opsDomains,    \* domains rows
    opsDeploys,    \* deployments rows
    activityLogs,  \* activity_logs rows
    opsReplicas,   \* spec.replicas of the first app in the cluster
    clusterCalls,  \* the calls the cluster received
    opsPc,         \* position of each management request
    opsLoc,        \* locals of each management request
    depDB,         \* the database as the health handler finds it
    depK8s,        \* the cluster as the health handler finds it
    healthPc,      \* position of each health request
    healthLoc,     \* locals of each health request
    depTbl,        \* deployment rows under the UPDATE statements
    mpc,           \* position of each request in the middleware stack
    mloc           \* its input, the functions it entered, its context keys and its answer

dbVars == <<deployments, appsTbl, hpc, hloc, dbFaults>>

logVars == <<ctxDone, logCh, closeCount, errCh, ppc, pread, spc, cpc, delivered, logFaults>>

k8sVars == <<cluster, dpc, dloc, ncalls, k8sFaults>>

oauthVars == <<oauthStates, issued, users, opc, oloc, oauthFaults>>

tokVars == <<apiTokens, qpc, qloc>>

tenVars == <<ownedApps, domainsTbl, depRows, nextID, nweb, apc, aloc>>

rlVars == <<visitors, limiters, nrate, rpc, rloc>>

burstVars == <<bnow, blim, bsent, bdenied>>

opsVars == <<opsApps, opsDomains, opsDeploys, activityLogs, opsReplicas, clusterCalls, opsPc, opsLoc>>

healthVars == <<depDB, depK8s, healthPc, healthLoc>>

rowVars == <<depTbl>>

chainVars == <<mpc, mloc>>

\* the state of the HTTP front: clock, OAuth callback, API tokens, app
\* endpoints, rate limiter
webVars == <<now, oauthVars, tokVars, tenVars, rlVars, burstVars, opsVars, healthVars, rowVars, chainVars>>

vars == <<dbVars, logVars, k8sVars, webVars>>

(***************************************************************************)
(* Persistence layer: the SQL queries                                      *)
(***************************************************************************)
\* ids of the rows of one app
RowsOf(tbl, a) == {i \in 1..Len(tbl) : tbl[i].app_id = a}

MaxVersion(tbl, a) ==
    IF RowsOf(tbl, a) = {} THEN 0
    ELSE CHOOSE v \in {tbl[i].version : i \in RowsOf(tbl, a)} :
             \A i \in RowsOf(tbl, a) : tbl[i].version <= v

ZeroDeployment == [id |-> NilID, app_id |-> "", version |-> 0, image |-> "", status |-> ""]

\* SELECT * FROM deployments WHERE app_id = $1 ORDER BY version DESC LIMIT 1
\* (the set of rows the query may return; no row -> the zero value)
GetLatestDeployment(tbl, a) ==
    IF RowsOf(tbl, a) = {} THEN {ZeroDeployment}
    ELSE {tbl[i] : i \in {j \in RowsOf(tbl, a) : tbl[j].version = MaxVersion(tbl, a)}}

\* SELECT * FROM deployments WHERE id = $1
GetDeploymentByID(tbl, id) ==
    IF id \in 1..Len(tbl) THEN {tbl[id]} ELSE {}

\* INSERT INTO deployments (app_id, version, image, status) ... RETURNING *
\* the table has no unique constraint on (app_id, version)
CreateDeployment(tbl, a, version, image, status) ==
    Append(tbl, [id |-> Len(tbl) + 1, app_id |-> a, version |-> version,
                 image |-> image, status |-> status])

\* UPDATE apps SET deployment_count = deployment_count + 1 WHERE id = $1
IncrementDeploymentCount(t, a) ==
    [t EXCEPT ![a].deployment_count = @ + 1]

\* an update that points at the id after the one it was given
UpdateAppStatus_NextID(t, a, status, depID) ==
    [t EXCEPT ![a].status = status, ![a].current_deployment_id = depID + 1]

\* UPDATE apps SET status = $2, current_deployment_id = $3 WHERE id = $1
UpdateAppStatus(t, a, status, depID) ==
    [t EXCEPT ![a].status = status, ![a].current_deployment_id = depID]

(***************************************************************************)
(* Initial state: every app has a history of n sequential creations        *)
(***************************************************************************)
InitImage(v) == IF v % 2 = 1 THEN "img1" ELSE "img2"

RECURSIVE HistoryRows(_, _, _)
HistoryRows(tbl, a, n) ==
    IF n = 0 THEN tbl
    ELSE CreateDeployment(HistoryRows(tbl, a, n - 1), a, n, InitImage(n), "pending")

IdleLocals ==
    [kind |-> "none", app |-> "", image |-> "", target |-> NilID,
     nextVersion |-> 0, newID |-> NilID, code |-> 0,
     readFailed |-> FALSE, maxAtInsert |-> 0, overlapped |-> FALSE]

\* tables after n1 sequential creations for a1 and n2 for a2
DBHistory(n1, n2) ==
    /\ deployments = HistoryRows(HistoryRows(<<>>, "a1", n1), "a2", n2)
    /\ appsTbl = [a \in Apps |->
          LET n == IF a = "a1" THEN n1 ELSE n2 IN
          [status |-> IF n = 0 THEN "stopped" ELSE "deploying",
           deployment_count |-> n,
           current_deployment_id |-> IF n = 0 THEN NilID
                                     ELSE IF a = "a1" THEN n1 ELSE n1 + n2]]

HandlersIdle ==
    /\ hpc = [r \in Reqs |-> "idle"]
    /\ hloc = [r \in Reqs |-> IdleLocals]
    /\ dbFaults = 0

InitDB ==
    /\ \E n1 \in 0..MaxInitDeps, n2 \in 0..MaxInitDeps : DBHistory(n1, n2)
    /\ HandlersIdle

\* the database as the log stream and the cluster driver find it: they never touch it
InitDBQuiet == DBHistory(0, 0) /\ HandlersIdle

(***************************************************************************)
(* Handlers                                                                *)
(***************************************************************************)
InProgress(r) == hpc[r] \notin {"idle", "done"}

\* a request starts: every request already running on the same app, and the
\* new one, are recorded as overlapping
MarkOverlap(loc, r, a) ==
    [q \in Reqs |->
        IF q = r
        THEN [loc[q] EXCEPT !.overlapped = \E o \in Reqs \ {r} : InProgress(o) /\ loc[o].app = a]
        ELSE IF InProgress(q) /\ loc[q].app = a
             THEN [loc[q] EXCEPT !.overlapped = TRUE]
             ELSE loc[q]]

Finish(r, code) ==
    /\ hpc' = [hpc EXCEPT ![r] = "done"]
    /\ hloc' = [hloc EXCEPT ![r].code = code]

\* POST /api/apps/:name/deployments: bind the body, validate the image, look up the app
PostBegin(r, a, img) ==
    /\ UNCHANGED <<logVars, k8sVars, webVars>>
    /\ hpc[r] = "idle"
    /\ IF img = ""
       THEN /\ hpc' = [hpc EXCEPT ![r] = "done"]
            /\ hloc' = [hloc EXCEPT ![r] = [IdleLocals EXCEPT !.kind = "create", !.code = 400]]
       ELSE /\ hpc' = [hpc EXCEPT ![r] = "getlatest"]
            /\ hloc' = MarkOverlap([hloc EXCEPT ![r] =
                          [IdleLocals EXCEPT !.kind = "create", !.app = a, !.image = img]], r, a)
    /\ UNCHANGED <<deployments, appsTbl, dbFaults>>

\* nextVersion := 1; if latestDeployment.ID != uuid.Nil { nextVersion = latest.Version + 1 }
NextVersion(latest) ==
    IF latest.id # NilID THEN latest.version + 1 ELSE 1

\* latestDeployment, _ := queries.GetLatestDeployment(...): the error is dropped
PostGetLatest(r) ==
    /\ UNCHANGED <<logVars, k8sVars, webVars>>
    /\ hpc[r] = "getlatest"
    /\ \/ \E latest \in GetLatestDeployment(deployments, hloc[r].app) :
             /\ hloc' = [hloc EXCEPT ![r].nextVersion = NextVersion(latest)]
             /\ UNCHANGED dbFaults
       \/ /\ dbFaults < MaxDbFaults
          /\ dbFaults' = dbFaults + 1
          /\ hloc' = [hloc EXCEPT ![r].nextVersion = NextVersion(ZeroDeployment),
                                  ![r].readFailed = TRUE]
    /\ hpc' = [hpc EXCEPT ![r] = "insert"]
    /\ UNCHANGED <<deployments, appsTbl>>

\* the three writes shared by both handlers, each its own database call
InsertStep(r) ==
    \/ /\ deployments' = CreateDeployment(deployments, hloc[r].app, hloc[r].nextVersion,
                                          hloc[r].image, "pending")
       /\ hloc' = [hloc EXCEPT ![r].newID = Len(deployments) + 1,
                               ![r].maxAtInsert = MaxVersion(deployments, hloc[r].app)]
       /\ hpc' = [hpc EXCEPT ![r] = "incr"]
       /\ UNCHANGED <<appsTbl, dbFaults>>
    \/ /\ dbFaults < MaxDbFaults
       /\ dbFaults' = dbFaults + 1
       /\ Finish(r, 500)
       /\ UNCHANGED <<deployments, appsTbl>>

IncrementStep(r) ==
    \/ /\ appsTbl' = IncrementDeploymentCount(appsTbl, hloc[r].app)
       /\ hpc' = [hpc EXCEPT ![r] = "status"]
       /\ UNCHANGED <<deployments, hloc, dbFaults>>
    \/ /\ dbFaults < MaxDbFaults
       /\ dbFaults' = dbFaults + 1
       /\ Finish(r, 500)
       /\ UNCHANGED <<deployments, appsTbl>>

StatusStep(r) ==
    \/ /\ appsTbl' = UpdateAppStatus(appsTbl, hloc[r].app, "deploying", hloc[r].newID)
       /\ Finish(r, 201)
       /\ UNCHANGED <<deployments, dbFaults>>
    \/ /\ dbFaults < MaxDbFaults
       /\ dbFaults' = dbFaults + 1
       /\ Finish(r, 500)
       /\ UNCHANGED <<deployments, appsTbl>>

PostCreateDeployment(r) ==
    /\ UNCHANGED <<logVars, k8sVars, webVars>>
    /\ hpc[r] = "insert" /\ hloc[r].kind = "create"
    /\ InsertStep(r)

PostIncrementCount(r) ==
    /\ UNCHANGED <<logVars, k8sVars, webVars>>
    /\ hpc[r] = "incr" /\ hloc[r].kind = "create"
    /\ IncrementStep(r)

PostUpdateAppStatus(r) ==
    /\ UNCHANGED <<logVars, k8sVars, webVars>>
    /\ hpc[r] = "status" /\ hloc[r].kind = "create"
    /\ StatusStep(r)

\* POST /api/apps/:name/deployments/:id (rollback): look up the app, parse the id
RollbackBegin(r, a, id) ==
    /\ UNCHANGED <<logVars, k8sVars, webVars>>
    /\ hpc[r] = "idle"
    /\ hpc' = [hpc EXCEPT ![r] = "getdep"]
    /\ hloc' = MarkOverlap([hloc EXCEPT ![r] =
                  [IdleLocals EXCEPT !.kind = "rollback", !.app = a, !.target = id]], r, a)
    /\ UNCHANGED <<deployments, appsTbl, dbFaults>>

\* Version: deployment.Version + 1, Image: deployment.Image
RollbackVersion(prior) == prior.version + 1

\* GetDeploymentByID; any error, or a row of another app, answers 404
RollbackGetDeployment(r) ==
    /\ UNCHANGED <<logVars, k8sVars, webVars>>
    /\ hpc[r] = "getdep"
    /\ \/ /\ \E prior \in GetDeploymentByID(deployments, hloc[r].target) :
                IF prior.app_id # hloc[r].app
                THEN Finish(r, 404)
                ELSE /\ hloc' = [hloc EXCEPT ![r].nextVersion = RollbackVersion(prior),
                                             ![r].image = prior.image]
                     /\ hpc' = [hpc EXCEPT ![r] = "insert"]
          /\ UNCHANGED dbFaults
       \/ /\ GetDeploymentByID(deployments, hloc[r].target) = {}
          /\ Finish(r, 404)
          /\ UNCHANGED dbFaults
       \/ /\ dbFaults < MaxDbFaults
          /\ dbFaults' = dbFaults + 1
          /\ Finish(r, 404)
    /\ UNCHANGED <<deployments, appsTbl>>

RollbackCreateDeployment(r) ==
    /\ UNCHANGED <<logVars, k8sVars, webVars>>
    /\ hpc[r] = "insert" /\ hloc[r].kind = "rollback"
    /\ InsertStep(r)

RollbackIncrementCount(r) ==
    /\ UNCHANGED <<logVars, k8sVars, webVars>>
    /\ hpc[r] = "incr" /\ hloc[r].kind = "rollback"
    /\ IncrementStep(r)

RollbackUpdateAppStatus(r) ==
    /\ UNCHANGED <<logVars, k8sVars, webVars>>
    /\ hpc[r] = "status" /\ hloc[r].kind = "rollback"
    /\ StatusStep(r)

NextDB ==
    \/ \E r \in Reqs, a \in Apps, img \in Images \cup {""} : PostBegin(r, a, img)
    \/ \E r \in Reqs : PostGetLatest(r)
    \/ \E r \in Reqs : PostCreateDeployment(r)
    \/ \E r \in Reqs : PostIncrementCount(r)
    \/ \E r \in Reqs : PostUpdateAppStatus(r)
    \/ \E r \in Reqs, a \in Apps, id \in 1..(2 * MaxInitDeps + 1) : RollbackBegin(r, a, id)
    \/ \E r \in Reqs : RollbackGetDeployment(r)
    \/ \E r \in Reqs : RollbackCreateDeployment(r)
    \/ \E r \in Reqs : RollbackIncrementCount(r)
    \/ \E r \in Reqs : RollbackUpdateAppStatus(r)


(***************************************************************************)
(* Log streaming: SSE handler, StreamLogs, per-pod producers               *)
(***************************************************************************)
\* pods the cluster may list for the app
Pods == {"p1", "p2"}
\* lines a pod stream delivers at most
MaxLines == 2
\* capacity of the output channel: make(chan k8s.LogLine, 100), scaled down
ChanCap == 1
\* number of cluster calls of the log stream that may fail
MaxLogFaults == 1

\* state right after streamLogs created ctx and logCh and started the goroutine
InitLogs ==
    /\ ctxDone = FALSE
    /\ logCh = <<>>
    /\ closeCount = 0
    /\ errCh = {}
    /\ ppc = [p \in Pods |-> "none"]
    /\ pread = [p \in Pods |-> 0]
    /\ spc = "getpods"
    /\ cpc = "loop"
    /\ delivered = <<>>
    /\ logFaults = 0

chClosed == closeCount > 0

\* a send on the closed channel panics in a goroutine without recover: the process dies
Crashed == \E p \in Pods : ppc[p] = "panicked"

\* the client disconnects: c.Request.Context() is cancelled
ClientDisconnect ==
    /\ ~Crashed
    /\ ~ctxDone
    /\ cpc = "loop"
    /\ ctxDone' = TRUE
    /\ UNCHANGED <<logCh, closeCount, errCh, ppc, pread, spc, cpc, delivered, logFaults>>
    /\ UNCHANGED <<dbVars, k8sVars, webVars>>

\* StreamLogs: GetPods, the zero-pod check and the start of one goroutine per pod
StreamLogsGetPods ==
    /\ ~Crashed
    /\ spc = "getpods"
    /\ \/ /\ ~ctxDone
          /\ \E ps \in SUBSET Pods :
                IF ps = {}
                THEN spc' = "nopods" /\ UNCHANGED ppc
                ELSE /\ spc' = "select"
                     /\ ppc' = [p \in Pods |-> IF p \in ps THEN "open" ELSE "none"]
          /\ UNCHANGED logFaults
       \/ /\ ctxDone
          /\ spc' = "close"
          /\ UNCHANGED <<ppc, logFaults>>
       \/ /\ ~ctxDone
          /\ logFaults < MaxLogFaults
          /\ logFaults' = logFaults + 1
          /\ spc' = "close"
          /\ UNCHANGED ppc
    /\ UNCHANGED <<ctxDone, logCh, closeCount, errCh, pread, cpc, delivered>>
    /\ UNCHANGED <<dbVars, k8sVars, webVars>>

\* StreamLogs: select { case <-ctx.Done(): ...; case err := <-errCh: ... } and return
StreamLogsSelect ==
    /\ ~Crashed
    /\ spc = "select"
    /\ \/ /\ ctxDone
          /\ UNCHANGED errCh
       \/ \E p \in errCh : errCh' = errCh \ {p}
    /\ spc' = "close"
    /\ UNCHANGED <<ctxDone, logCh, closeCount, ppc, pread, cpc, delivered, logFaults>>
    /\ UNCHANGED <<dbVars, k8sVars, webVars>>

\* StreamLogs returned fmt.Errorf("no pods found for app %s", appName)
NoPodsFound == spc \in {"nopods", "done-nopods"}

\* the goroutine of streamLogs: it prints the error of StreamLogs, if any,
\* and closes logCh
StreamLogsClose ==
    /\ ~Crashed
    /\ spc \in {"close", "nopods"}
    /\ closeCount' = closeCount + 1
    /\ spc' = IF spc = "nopods" THEN "done-nopods" ELSE "done"
    /\ UNCHANGED <<ctxDone, logCh, errCh, ppc, pread, cpc, delivered, logFaults>>
    /\ UNCHANGED <<dbVars, k8sVars, webVars>>

\* a producer returns: an error goes to errCh (buffered, one slot per pod), nil does not
ProducerReturn(p, isErr) ==
    /\ ppc' = [ppc EXCEPT ![p] = "done"]
    /\ errCh' = IF isErr THEN errCh \cup {p} ELSE errCh

\* streamPodLogs: req.Stream(ctx)
PodOpen(p) ==
    /\ ~Crashed
    /\ ppc[p] = "open"
    /\ \/ /\ ~ctxDone
          /\ ppc' = [ppc EXCEPT ![p] = "loop"]
          /\ UNCHANGED <<errCh, logFaults>>
       \/ /\ ctxDone
          /\ ProducerReturn(p, TRUE)
          /\ UNCHANGED logFaults
       \/ /\ ~ctxDone
          /\ logFaults < MaxLogFaults
          /\ logFaults' = logFaults + 1
          /\ ProducerReturn(p, TRUE)
    /\ UNCHANGED <<ctxDone, logCh, closeCount, pread, spc, cpc, delivered>>
    /\ UNCHANGED <<dbVars, k8sVars, webVars>>

\* streamPodLogs: select { case <-ctx.Done(): return ctx.Err(); default: ... }
PodLoop(p) ==
    /\ ~Crashed
    /\ ppc[p] = "loop"
    /\ IF ctxDone
       THEN ProducerReturn(p, TRUE)
       ELSE ppc' = [ppc EXCEPT ![p] = "read"] /\ UNCHANGED errCh
    /\ UNCHANGED <<ctxDone, logCh, closeCount, pread, spc, cpc, delivered, logFaults>>
    /\ UNCHANGED <<dbVars, k8sVars, webVars>>

\* streamPodLogs: reader.ReadString: a line, io.EOF (return nil) or an error
PodRead(p) ==
    /\ ~Crashed
    /\ ppc[p] = "read"
    /\ \/ /\ pread[p] < MaxLines
          /\ pread' = [pread EXCEPT ![p] = @ + 1]
          /\ ppc' = [ppc EXCEPT ![p] = "send"]
          /\ UNCHANGED <<errCh, logFaults>>
       \/ /\ ProducerReturn(p, FALSE)
          /\ UNCHANGED <<pread, logFaults>>
       \/ /\ ctxDone
          /\ ProducerReturn(p, TRUE)
          /\ UNCHANGED <<pread, logFaults>>
       \/ /\ ~ctxDone
          /\ logFaults < MaxLogFaults
          /\ logFaults' = logFaults + 1
          /\ ProducerReturn(p, TRUE)
          /\ UNCHANGED pread
    /\ UNCHANGED <<ctxDone, logCh, closeCount, spc, cpc, delivered>>
    /\ UNCHANGED <<dbVars, k8sVars, webVars>>

\* streamPodLogs: outputCh <- LogLine{...}: blocks while the buffer is full,
\* panics when the channel has been closed
PodSend(p) ==
    /\ ~Crashed
    /\ ppc[p] = "send"
    /\ IF chClosed
       THEN /\ ppc' = [ppc EXCEPT ![p] = "panicked"]
            /\ UNCHANGED logCh
       ELSE /\ Len(logCh) < ChanCap
            /\ logCh' = Append(logCh, [pod |-> p, line |-> pread[p]])
            /\ ppc' = [ppc EXCEPT ![p] = "loop"]
    /\ UNCHANGED <<ctxDone, closeCount, errCh, pread, spc, cpc, delivered, logFaults>>
    /\ UNCHANGED <<dbVars, k8sVars, webVars>>

\* streamLogs loop: case <-ctx.Done(): return nil (the deferred cancel runs)
HandlerCtxDone ==
    /\ ~Crashed
    /\ cpc = "loop"
    /\ ctxDone
    /\ cpc' = "done"
    /\ UNCHANGED <<ctxDone, logCh, closeCount, errCh, ppc, pread, spc, delivered, logFaults>>
    /\ UNCHANGED <<dbVars, k8sVars, webVars>>

\* streamLogs loop: case log, ok := <-logCh with ok: write one SSE frame
HandlerRecv ==
    /\ ~Crashed
    /\ cpc = "loop"
    /\ logCh # <<>>
    /\ delivered' = Append(delivered, Head(logCh))
    /\ logCh' = Tail(logCh)
    /\ UNCHANGED <<ctxDone, closeCount, errCh, ppc, pread, spc, cpc, logFaults>>
    /\ UNCHANGED <<dbVars, k8sVars, webVars>>

\* streamLogs loop: case log, ok := <-logCh with !ok: return nil; defer cancel()
HandlerChanClosed ==
    /\ ~Crashed
    /\ cpc = "loop"
    /\ logCh = <<>>
    /\ chClosed
    /\ cpc' = "done"
    /\ ctxDone' = TRUE
    /\ UNCHANGED <<logCh, closeCount, errCh, ppc, pread, spc, delivered, logFaults>>
    /\ UNCHANGED <<dbVars, k8sVars, webVars>>

\* what the client of streamLogs has received once the handler returned nil:
\* the SSE headers with the implicit status, and the frames written so far
StreamAnswer ==
    [status |-> 200, contentType |-> "text/event-stream", frames |-> delivered]

NextLogs ==
    \/ ClientDisconnect
    \/ StreamLogsGetPods
    \/ StreamLogsSelect
    \/ StreamLogsClose
    \/ \E p \in Pods : PodOpen(p)
    \/ \E p \in Pods : PodLoop(p)
    \/ \E p \in Pods : PodRead(p)
    \/ \E p \in Pods : PodSend(p)
    \/ HandlerCtxDone
    \/ HandlerRecv
    \/ HandlerChanClosed


(***************************************************************************)
(* Cluster driver: Deploy over namespace, secret, deployment, service,     *)
(* ingress                                                                 *)
(***************************************************************************)
\* number of Deploy calls
MaxCalls == 2
\* number of cluster API calls of Deploy that may fail
MaxK8sFaults == 1
\* status polls of one readiness wait
MaxPolls == 1

Deployers == {"d1", "d2"}

\* the five resources in the order Deploy applies them
Kinds == <<"namespace", "secret", "deployment", "service", "ingress">>
NsStep == 1
DeploymentStep == 3
ServiceStep == 4
LastStep == 5
Steps == NsStep..LastStep

\* AppConfig values of the one app under deployment
Cfgs ==
    { [name |-> "myapp", image |-> "img1", replicas |-> 1, port |-> 8080,
       env |-> "e1", domain |-> "", suffix |-> "nexo.build"],
      [name |-> "myapp", image |-> "img2", replicas |-> 2, port |-> 3000,
       env |-> "e2", domain |-> "custom.example.com", suffix |-> "nexo.build"] }

MaxReplicas == 2
\* cluster IPs the API server may assign to a new Service
ClusterIPs == {"10.0.0.1", "10.0.0.2"}
NoIP == ""

NamespaceForApp(name) == <<"tenant-", name>>

GenerateNamespace(cfg) == [name |-> NamespaceForApp(cfg.name), app |-> cfg.name]

GenerateSecret(cfg) == [name |-> <<cfg.name, "-env">>, data |-> cfg.env]

GenerateDeployment(cfg) ==
    [name |-> cfg.name, replicas |-> cfg.replicas, image |-> cfg.image, port |-> cfg.port]

GenerateService(cfg) == [name |-> cfg.name, port |-> 80, targetPort |-> cfg.port]

GenerateIngress(cfg) ==
    [name |-> cfg.name,
     host |-> IF cfg.domain # "" THEN <<cfg.domain>> ELSE <<cfg.name, ".", cfg.suffix>>]

\* the object Deploy generates for step k
Generate(k, cfg) ==
    CASE k = 1 -> GenerateNamespace(cfg)
      [] k = 2 -> GenerateSecret(cfg)
      [] k = 3 -> GenerateDeployment(cfg)
      [] k = 4 -> GenerateService(cfg)
      [] k = 5 -> GenerateIngress(cfg)

Absent == [present |-> FALSE, spec |-> <<>>, rv |-> 0, clusterIP |-> NoIP, readyReplicas |-> 0]

\* the object sent with Update: generated, with existing.ResourceVersion,
\* and for the Service also existing.Spec.ClusterIP
UpdateObject_NoClusterIP(k, cfg, existing) ==
    [spec |-> Generate(k, cfg), rv |-> existing.rv, clusterIP |-> NoIP]

UpdateObject(k, cfg, existing) ==
    [spec |-> Generate(k, cfg), rv |-> existing.rv,
     clusterIP |-> IF k = ServiceStep THEN existing.clusterIP ELSE NoIP]

\* API server: Update is refused for a missing object, a stale
\* resourceVersion or a changed (immutable) Service clusterIP
UpdateAccepted(cur, obj) ==
    /\ cur.present
    /\ obj.rv = cur.rv
    /\ obj.clusterIP = cur.clusterIP

ApiUpdate(cur, obj) ==
    [cur EXCEPT !.spec = obj.spec, !.rv = cur.rv + 1]

\* API server: Create is refused when the object exists or, for a namespaced
\* object, when its namespace does not
CreateAccepted(cl, k) ==
    /\ ~cl[k].present
    /\ k # NsStep => cl[NsStep].present

ApiCreate(k, spec, ip) ==
    [present |-> TRUE, spec |-> spec, rv |-> 1,
     clusterIP |-> IF k = ServiceStep THEN ip ELSE NoIP, readyReplicas |-> 0]

NoResult == [returned |-> FALSE, err |-> 0, success |-> FALSE, namespace |-> <<>>]

IdleDeploy ==
    [cfg |-> CHOOSE c \in Cfgs : TRUE, step |-> 0, found |-> FALSE, existing |-> Absent,
     result |-> NoResult, attempted |-> {}, written |-> <<>>, faulted |-> FALSE,
     seq |-> 0, polls |-> 0, polled |-> Absent]

InitDeploy ==
    /\ cluster = [k \in Steps |-> Absent]
    /\ dpc = [d \in Deployers |-> "idle"]
    /\ dloc = [d \in Deployers |-> IdleDeploy]
    /\ ncalls = 0
    /\ k8sFaults = 0

DeployRunning(d) == dpc[d] \notin {"idle", "done"}

\* a caller invokes Deploy(ctx, cfg); calls follow one another
DeployStart(d, cfg) ==
    /\ dpc[d] \in {"idle", "done"}
    /\ \A o \in Deployers : ~DeployRunning(o)
    /\ ncalls < MaxCalls
    /\ ncalls' = ncalls + 1
    /\ dpc' = [dpc EXCEPT ![d] = "get"]
    /\ dloc' = [dloc EXCEPT ![d] = [IdleDeploy EXCEPT !.cfg = cfg, !.step = NsStep,
                                                      !.seq = ncalls + 1]]
    /\ UNCHANGED <<cluster, k8sFaults>>
    /\ UNCHANGED <<dbVars, logVars, webVars>>

\* two callers invoke Deploy for the same app without waiting for each other:
\* Client has no lock and Deploy takes none
DeployStartConcurrent(d, cfg) ==
    /\ dpc[d] = "idle"
    /\ \A o \in Deployers : DeployRunning(o) => dloc[o].cfg.name = cfg.name
    /\ ncalls < MaxCalls
    /\ ncalls' = ncalls + 1
    /\ dpc' = [dpc EXCEPT ![d] = "get"]
    /\ dloc' = [dloc EXCEPT ![d] = [IdleDeploy EXCEPT !.cfg = cfg, !.step = NsStep,
                                                      !.seq = ncalls + 1]]
    /\ UNCHANGED <<cluster, k8sFaults>>
    /\ UNCHANGED <<dbVars, logVars, webVars>>

\* return nil, fmt.Errorf("failed to ...: %w", err): nothing is undone
DeployFail_Rollback(d, loc, cl) ==
    /\ dpc' = [dpc EXCEPT ![d] = "done"]
    /\ dloc' = [dloc EXCEPT ![d] = [loc EXCEPT !.result =
                   [returned |-> TRUE, err |-> loc.step, success |-> FALSE, namespace |-> <<>>]]]
    /\ cluster' = [k \in Steps |-> IF k > NsStep /\ k < loc.step THEN Absent ELSE cl[k]]

DeployFail(d, loc, cl) ==
    /\ dpc' = [dpc EXCEPT ![d] = "done"]
    /\ dloc' = [dloc EXCEPT ![d] = [loc EXCEPT !.result =
                   [returned |-> TRUE, err |-> loc.step, success |-> FALSE, namespace |-> <<>>]]]
    /\ cluster' = cl

\* the call has written the object of its current step (Create or Update got through)
Wrote(loc) == [loc EXCEPT !.written = Append(@, loc.step)]

\* as Deploy, with applyService called before applyDeployment
DeployAdvance_ServiceFirst(d, loc) ==
    /\ dpc' = [dpc EXCEPT ![d] = IF loc.step = LastStep THEN "wait" ELSE "get"]
    /\ dloc' = [dloc EXCEPT ![d] = [loc EXCEPT !.step =
                   CASE loc.step = LastStep -> @
                     [] loc.step = DeploymentStep - 1 -> ServiceStep
                     [] loc.step = ServiceStep -> DeploymentStep
                     [] loc.step = DeploymentStep -> LastStep
                     [] OTHER -> @ + 1]]

\* the apply of step k returned nil: Deploy goes on to the next apply, or to the wait
DeployAdvance(d, loc) ==
    /\ dpc' = [dpc EXCEPT ![d] = IF loc.step = LastStep THEN "wait" ELSE "get"]
    /\ dloc' = [dloc EXCEPT ![d] = [loc EXCEPT !.step = IF loc.step = LastStep THEN @ ELSE @ + 1]]

\* first round-trip of ensureNamespace / applySecret / ... : Get
DeployGet(d) ==
    /\ dpc[d] = "get"
    /\ LET k == dloc[d].step
           loc == [dloc[d] EXCEPT !.attempted = @ \cup {k}]
       IN  \/ /\ cluster[k].present
              /\ IF k = NsStep
                 THEN DeployAdvance(d, loc)
                 ELSE /\ dpc' = [dpc EXCEPT ![d] = "update"]
                      /\ dloc' = [dloc EXCEPT ![d] = [loc EXCEPT !.existing = cluster[k]]]
              /\ UNCHANGED <<cluster, k8sFaults>>
           \/ /\ ~cluster[k].present
              /\ dpc' = [dpc EXCEPT ![d] = "create"]
              /\ dloc' = [dloc EXCEPT ![d] = loc]
              /\ UNCHANGED <<cluster, k8sFaults>>
           \/ /\ k8sFaults < MaxK8sFaults
              /\ k8sFaults' = k8sFaults + 1
              /\ DeployFail(d, [loc EXCEPT !.faulted = TRUE], cluster)
    /\ UNCHANGED ncalls
    /\ UNCHANGED <<dbVars, logVars, webVars>>

\* second round-trip when Get found the object: Update
DeployUpdate(d) ==
    /\ dpc[d] = "update"
    /\ LET k == dloc[d].step
           obj == UpdateObject(k, dloc[d].cfg, dloc[d].existing)
       IN  \/ /\ UpdateAccepted(cluster[k], obj)
              /\ cluster' = [cluster EXCEPT ![k] = ApiUpdate(cluster[k], obj)]
              /\ DeployAdvance(d, Wrote(dloc[d]))
              /\ UNCHANGED k8sFaults
           \/ /\ ~UpdateAccepted(cluster[k], obj)
              /\ DeployFail(d, dloc[d], cluster)
              /\ UNCHANGED k8sFaults
           \/ /\ k8sFaults < MaxK8sFaults
              /\ k8sFaults' = k8sFaults + 1
              /\ \/ DeployFail(d, [dloc[d] EXCEPT !.faulted = TRUE], cluster)
                 \/ /\ UpdateAccepted(cluster[k], obj)
                    /\ DeployFail(d, [Wrote(dloc[d]) EXCEPT !.faulted = TRUE],
                                  [cluster EXCEPT ![k] = ApiUpdate(cluster[k], obj)])
    /\ UNCHANGED ncalls
    /\ UNCHANGED <<dbVars, logVars, webVars>>

\* second round-trip when Get answered NotFound: Create
DeployCreate(d) ==
    /\ dpc[d] = "create"
    /\ LET k == dloc[d].step
           spec == Generate(k, dloc[d].cfg)
       IN  \/ /\ CreateAccepted(cluster, k)
              /\ \E ip \in ClusterIPs :
                    cluster' = [cluster EXCEPT ![k] = ApiCreate(k, spec, ip)]
              /\ DeployAdvance(d, Wrote(dloc[d]))
              /\ UNCHANGED k8sFaults
           \/ /\ ~CreateAccepted(cluster, k)
              /\ DeployFail(d, dloc[d], cluster)
              /\ UNCHANGED k8sFaults
           \/ /\ k8sFaults < MaxK8sFaults
              /\ k8sFaults' = k8sFaults + 1
              /\ \/ DeployFail(d, [dloc[d] EXCEPT !.faulted = TRUE], cluster)
                 \/ /\ CreateAccepted(cluster, k)
                    /\ \E ip \in ClusterIPs :
                          DeployFail(d, [Wrote(dloc[d]) EXCEPT !.faulted = TRUE],
                                     [cluster EXCEPT ![k] = ApiCreate(k, spec, ip)])
    /\ UNCHANGED ncalls
    /\ UNCHANGED <<dbVars, logVars, webVars>>

\* a readiness test that is satisfied by any deployment that exists
DeploymentReady_AnyPresent(obj) ==
    obj.present

\* the poll condition: deployment.Status.ReadyReplicas >= *deployment.Spec.Replicas
DeploymentReady(obj) ==
    obj.present /\ obj.readyReplicas >= obj.spec.replicas

\* waitForDeployment: one status poll; a poll that sees the deployment ready
\* ends Deploy, a poll whose Get fails counts as not ready (return false, nil)
DeployPoll(d) ==
    /\ dpc[d] = "wait"
    /\ \/ /\ DeploymentReady(cluster[DeploymentStep])
          /\ dpc' = [dpc EXCEPT ![d] = "done"]
          /\ dloc' = [dloc EXCEPT ![d].result =
                [returned |-> TRUE, err |-> 0, success |-> TRUE,
                 namespace |-> NamespaceForApp(dloc[d].cfg.name)],
                                  ![d].polled = cluster[DeploymentStep]]
          /\ UNCHANGED k8sFaults
       \/ /\ ~DeploymentReady(cluster[DeploymentStep])
          /\ dloc[d].polls < MaxPolls
          /\ dloc' = [dloc EXCEPT ![d].polls = @ + 1,
                                  ![d].polled = cluster[DeploymentStep]]
          /\ UNCHANGED <<dpc, k8sFaults>>
       \/ /\ k8sFaults < MaxK8sFaults
          /\ k8sFaults' = k8sFaults + 1
          /\ dloc[d].polls < MaxPolls
          /\ dloc' = [dloc EXCEPT ![d].polls = @ + 1]
          /\ UNCHANGED dpc
    /\ UNCHANGED <<cluster, ncalls>>
    /\ UNCHANGED <<dbVars, logVars, webVars>>

\* as Deploy, with the error of waitForDeployment returned to the caller
DeployWaitTimeout_ReturnsErr(d) ==
    /\ dpc[d] = "wait"
    /\ dpc' = [dpc EXCEPT ![d] = "done"]
    /\ dloc' = [dloc EXCEPT ![d].result =
          [returned |-> TRUE, err |-> LastStep, success |-> FALSE, namespace |-> <<>>]]
    /\ UNCHANGED <<cluster, ncalls, k8sFaults>>
    /\ UNCHANGED <<dbVars, logVars, webVars>>

\* waitForDeployment gives up (5 minutes, or the caller's deadline): success=false, nil error
DeployWaitTimeout(d) ==
    /\ dpc[d] = "wait"
    /\ dpc' = [dpc EXCEPT ![d] = "done"]
    /\ dloc' = [dloc EXCEPT ![d].result =
          [returned |-> TRUE, err |-> 0, success |-> FALSE,
           namespace |-> NamespaceForApp(dloc[d].cfg.name)]]
    /\ UNCHANGED <<cluster, ncalls, k8sFaults>>
    /\ UNCHANGED <<dbVars, logVars, webVars>>

\* the deployment controller reports the number of ready pods
ControllerSetReady(n) ==
    /\ cluster[DeploymentStep].present
    /\ cluster[DeploymentStep].readyReplicas # n
    /\ cluster' = [cluster EXCEPT ![DeploymentStep].readyReplicas = n]
    /\ UNCHANGED <<dpc, dloc, ncalls, k8sFaults>>
    /\ UNCHANGED <<dbVars, logVars, webVars>>

NextDeploy ==
    \/ \E d \in Deployers, cfg \in Cfgs : DeployStart(d, cfg)
    \/ \E d \in Deployers : DeployGet(d)
    \/ \E d \in Deployers : DeployUpdate(d)
    \/ \E d \in Deployers : DeployCreate(d)
    \/ \E d \in Deployers : DeployPoll(d)
    \/ \E d \in Deployers : DeployWaitTimeout(d)
    \/ \E n \in 0..MaxReplicas : ControllerSetReady(n)

\* the same steps with overlapping calls
NextDeployConcurrent ==
    \/ \E d \in Deployers, cfg \in Cfgs : DeployStartConcurrent(d, cfg)
    \/ \E d \in Deployers : DeployGet(d)
    \/ \E d \in Deployers : DeployUpdate(d)
    \/ \E d \in Deployers : DeployCreate(d)
    \/ \E d \in Deployers : DeployPoll(d)
    \/ \E d \in Deployers : DeployWaitTimeout(d)
    \/ \E n \in 0..MaxReplicas : ControllerSetReady(n)

(***************************************************************************)
(* The HTTP front: wall clock                                              *)
(***************************************************************************)
\* last instant of the wall clock
MaxNow == 2

\* time.Now() moves on between any two steps
Tick ==
    /\ now < MaxNow
    /\ now' = now + 1
    /\ UNCHANGED <<dbVars, logVars, k8sVars, oauthVars, tokVars, tenVars, rlVars, burstVars, opsVars, healthVars, rowVars, chainVars>>

(***************************************************************************)
(* OAuth login and callback over the oauth_states table                    *)
(***************************************************************************)
\* number of oauth_states statements that may fail
MaxOAuthFaults == 1
\* lifetime of a stored state, in clock units (10 minutes in the code)
StateTTL == 1

\* concurrent callback requests
Callbacks == {"k1", "k2"}
\* state values auth.GenerateState can return
IssuableStates == {"s1"}
\* state query parameters a callback can carry: an issued one, one that was
\* never issued, or none
StateParams == IssuableStates \cup {"sx", ""}
\* code query parameters: none, one GitHub accepts, one GitHub refuses
CodeParams == {"", "good", "bad"}
\* error query parameters: none, or the provider's error
ErrorParams == {"", "access_denied"}
\* the GitHub account the accepted code belongs to
GitHubIDs == {"g1"}

\* no row of oauth_states under this key
NoRow == [present |-> FALSE, expiresAt |-> 0, cli |-> FALSE]

\* what a step of the OAuth handlers leaves alone
OAuthFrame == UNCHANGED <<dbVars, logVars, k8sVars, now, tokVars, tenVars, rlVars, burstVars, opsVars, healthVars, rowVars, chainVars>>

IdleCallback ==
    [code |-> "", state |-> "", errorParam |-> "", row |-> NoRow,
     status |-> 0, stored |-> FALSE, userFound |-> FALSE]

InitOAuth ==
    /\ oauthStates = [s \in IssuableStates |-> NoRow]
    /\ issued = {}
    /\ users = {}
    /\ opc = [k \in Callbacks |-> "idle"]
    /\ oloc = [k \in Callbacks |-> IdleCallback]
    /\ oauthFaults = 0

\* -- name: GetOAuthState :one   SELECT * FROM oauth_states WHERE state = $1
GetOAuthState(tbl, s) == IF s \in DOMAIN tbl THEN tbl[s] ELSE NoRow

\* -- name: DeleteOAuthState :exec   DELETE FROM oauth_states WHERE state = $1
DeleteOAuthState(tbl, s) == [t \in DOMAIN tbl |-> IF t = s THEN NoRow ELSE tbl[t]]

\* ghClient.Exchange followed by ghClient.GetUser: the account of the code
Exchange(code) == IF code = "good" THEN "g1" ELSE ""

\* the callback answers and returns
Respond(k, loc, status) ==
    /\ opc' = [opc EXCEPT ![k] = "done"]
    /\ oloc' = [oloc EXCEPT ![k] = [loc EXCEPT !.status = status]]

\* GET /api/auth/login: store a fresh state that expires after StateTTL
LoginGet(s, cli) ==
    /\ s \notin issued
    /\ issued' = issued \cup {s}
    /\ oauthStates' = [oauthStates EXCEPT ![s] =
                           [present |-> TRUE, expiresAt |-> now + StateTTL, cli |-> cli]]
    /\ UNCHANGED <<users, opc, oloc, oauthFaults>>
    /\ OAuthFrame

\* GET /api/auth/callback: read the query, answer 400 on a provider error
\* or a missing parameter before any statement runs
CallbackBegin(k, code, state, errorParam) ==
    /\ opc[k] = "idle"
    /\ LET loc == [IdleCallback EXCEPT
                       !.code = code, !.state = state, !.errorParam = errorParam,
                       !.stored = GetOAuthState(oauthStates, state).present]
       IN  IF errorParam # "" \/ code = "" \/ state = ""
           THEN Respond(k, loc, 400)
           ELSE /\ opc' = [opc EXCEPT ![k] = "get"]
                /\ oloc' = [oloc EXCEPT ![k] = loc]
    /\ UNCHANGED <<oauthStates, issued, users, oauthFaults>>
    /\ OAuthFrame

\* queries.GetOAuthState, then the comparison with time.Now()
CallbackGetOAuthState(k) ==
    /\ opc[k] = "get"
    /\ LET row == GetOAuthState(oauthStates, oloc[k].state)
           loc == [oloc[k] EXCEPT !.row = row]
       IN  IF ~row.present
           THEN Respond(k, loc, 400)
           ELSE /\ opc' = [opc EXCEPT ![k] = IF now > row.expiresAt
                                              THEN "deleteExpired" ELSE "delete"]
                /\ oloc' = [oloc EXCEPT ![k] = loc]
    /\ UNCHANGED <<oauthStates, issued, users, oauthFaults>>
    /\ OAuthFrame

\* the delete statement runs, or fails with its error dropped (_ =)
DeleteStatement(k) ==
    \/ /\ oauthStates' = DeleteOAuthState(oauthStates, oloc[k].state)
       /\ UNCHANGED oauthFaults
    \/ /\ oauthFaults < MaxOAuthFaults
       /\ oauthFaults' = oauthFaults + 1
       /\ UNCHANGED oauthStates

\* the expired branch: delete the row, answer 400
CallbackDeleteExpired(k) ==
    /\ opc[k] = "deleteExpired"
    /\ DeleteStatement(k)
    /\ Respond(k, oloc[k], 400)
    /\ UNCHANGED <<issued, users>>
    /\ OAuthFrame

\* the accepted branch: delete the row and go on to the provider
CallbackDeleteOAuthState(k) ==
    /\ opc[k] = "delete"
    /\ DeleteStatement(k)
    /\ opc' = [opc EXCEPT ![k] = "exchange"]
    /\ UNCHANGED <<issued, users, oloc>>
    /\ OAuthFrame

\* ghClient.Exchange and ghClient.GetUser: 500 when the provider refuses
CallbackExchange(k) ==
    /\ opc[k] = "exchange"
    /\ IF Exchange(oloc[k].code) = ""
       THEN Respond(k, oloc[k], 500)
       ELSE /\ opc' = [opc EXCEPT ![k] = "getUser"]
            /\ UNCHANGED oloc
    /\ UNCHANGED <<oauthStates, issued, users, oauthFaults>>
    /\ OAuthFrame

\* queries.GetUserByGitHubID
CallbackGetUserByGitHubID(k) ==
    /\ opc[k] = "getUser"
    /\ opc' = [opc EXCEPT ![k] = "upsert"]
    /\ oloc' = [oloc EXCEPT ![k].userFound = Exchange(oloc[k].code) \in users]
    /\ UNCHANGED <<oauthStates, issued, users, oauthFaults>>
    /\ OAuthFrame

\* queries.CreateUser when the lookup found nothing (github_id is UNIQUE),
\* queries.UpdateUser otherwise; then the tokens and the answer: JSON 200
\* for a CLI exchange, cookies and a 302 redirect for the browser
CallbackUpsertUser(k) ==
    /\ opc[k] = "upsert"
    /\ LET g == Exchange(oloc[k].code) IN
       IF ~oloc[k].userFound /\ g \in users
       THEN /\ Respond(k, oloc[k], 500)
            /\ UNCHANGED users
       ELSE /\ users' = IF oloc[k].userFound THEN users ELSE users \cup {g}
            /\ Respond(k, oloc[k], IF oloc[k].row.cli THEN 200 ELSE 302)
    /\ UNCHANGED <<oauthStates, issued, oauthFaults>>
    /\ OAuthFrame

NextOAuth ==
    \/ Tick
    \/ \E s \in IssuableStates, cli \in BOOLEAN : LoginGet(s, cli)
    \/ \E k \in Callbacks, code \in CodeParams, state \in StateParams, e \in ErrorParams :
           CallbackBegin(k, code, state, e)
    \/ \E k \in Callbacks : CallbackGetOAuthState(k)
    \/ \E k \in Callbacks : CallbackDeleteExpired(k)
    \/ \E k \in Callbacks : CallbackDeleteOAuthState(k)
    \/ \E k \in Callbacks : CallbackExchange(k)
    \/ \E k \in Callbacks : CallbackGetUserByGitHubID(k)
    \/ \E k \in Callbacks : CallbackUpsertUser(k)

(***************************************************************************)
(* API token authentication (fgt_ bearer tokens)                           *)
(***************************************************************************)
\* concurrent requests that carry an API token
AuthReqs == {"q1", "q2"}
\* the API tokens that can be created
TokenIDs == {"t1", "t2"}
\* bearer values a request can carry: a created token's secret, or one that
\* matches no row
Bearers == TokenIDs \cup {"tx"}
\* expires_in values of a token creation request; 0 asks for no expiry
ExpiresIns == {0, 1}
\* the two auth middlewares of the repository, by source file
Middlewares == {"part_017", "part_018"}

\* no row of api_tokens for this token
NoToken == [present |-> FALSE, hasExpiry |-> FALSE, expiresAt |-> 0,
            createdAt |-> 0, lastUsedAt |-> -1]

IdleAuth ==
    [bearer |-> "", mw |-> "", row |-> NoToken, status |-> 0,
     checkedAt |-> -1, next |-> FALSE]

\* what a step of the token handlers leaves alone
TokenFrame == UNCHANGED <<dbVars, logVars, k8sVars, now, oauthVars, tenVars, rlVars, burstVars, opsVars, healthVars, rowVars, chainVars>>

InitToken ==
    /\ apiTokens = [t \in TokenIDs |-> NoToken]
    /\ qpc = [q \in AuthReqs |-> "idle"]
    /\ qloc = [q \in AuthReqs |-> IdleAuth]

\* POST /api/auth/token: expires_at = time.Now() + expires_in when
\* expires_in > 0, NULL otherwise; created_at DEFAULT NOW()
TokenPost(t, expiresIn) ==
    /\ ~apiTokens[t].present
    /\ apiTokens' = [apiTokens EXCEPT ![t] =
                         [present |-> TRUE, hasExpiry |-> expiresIn > 0,
                          expiresAt |-> IF expiresIn > 0 THEN now + expiresIn ELSE 0,
                          createdAt |-> now, lastUsedAt |-> -1]]
    /\ UNCHANGED <<qpc, qloc>>
    /\ TokenFrame

\* searchAllTokens / searchAllTokensOptimized: the row whose hash matches
findAPITokenByPrefix(tbl, bearer) == IF bearer \in DOMAIN tbl THEN tbl[bearer] ELSE NoToken

\* the expiry test of handleAPIToken in part_017: against time.Now()
ExpiredNow(row, t) == row.hasExpiry /\ row.expiresAt < t

\* the expiry test of handleAPIToken in part_018: against the row's created_at
ExpiredAtCreation(row) == row.hasExpiry /\ row.expiresAt < row.createdAt

\* the handler's verdict on the row it found
TokenExpired(mw, row, t) ==
    IF mw = "part_017" THEN ExpiredNow(row, t) ELSE ExpiredAtCreation(row)

\* the request answers 401, or reaches the next handler
AuthRespond(q, loc, status, next) ==
    /\ qpc' = [qpc EXCEPT ![q] = "done"]
    /\ qloc' = [qloc EXCEPT ![q] = [loc EXCEPT !.status = status, !.next = next]]

\* Middleware: a bearer with the fgt_ prefix goes to handleAPIToken
handleAPITokenBegin(q, bearer, mw) ==
    /\ qpc[q] = "idle"
    /\ qpc' = [qpc EXCEPT ![q] = "find"]
    /\ qloc' = [qloc EXCEPT ![q] = [IdleAuth EXCEPT !.bearer = bearer, !.mw = mw]]
    /\ UNCHANGED apiTokens
    /\ TokenFrame

\* the table scan: 401 when no row matches
handleAPITokenFind(q) ==
    /\ qpc[q] = "find"
    /\ LET row == findAPITokenByPrefix(apiTokens, qloc[q].bearer) IN
       IF ~row.present
       THEN AuthRespond(q, qloc[q], 401, FALSE)
       ELSE /\ qpc' = [qpc EXCEPT ![q] = "check"]
            /\ qloc' = [qloc EXCEPT ![q].row = row]
    /\ UNCHANGED apiTokens
    /\ TokenFrame

\* the expiry test: 401 "token expired", or on to UpdateAPITokenLastUsed
handleAPITokenCheck(q) ==
    /\ qpc[q] = "check"
    /\ LET loc == [qloc[q] EXCEPT !.checkedAt = now] IN
       IF TokenExpired(loc.mw, loc.row, now)
       THEN AuthRespond(q, loc, 401, FALSE)
       ELSE /\ qpc' = [qpc EXCEPT ![q] = "use"]
            /\ qloc' = [qloc EXCEPT ![q] = loc]
    /\ UNCHANGED apiTokens
    /\ TokenFrame

\* UpdateAPITokenLastUsed, GetUserByID, c.Set("user_id"), next(c)
handleAPITokenUse(q) ==
    /\ qpc[q] = "use"
    /\ apiTokens' = [apiTokens EXCEPT ![qloc[q].bearer].lastUsedAt = now]
    /\ AuthRespond(q, qloc[q], 200, TRUE)
    /\ TokenFrame

NextToken ==
    \/ Tick
    \/ \E t \in TokenIDs, e \in ExpiresIns : TokenPost(t, e)
    \/ \E q \in AuthReqs, b \in Bearers, mw \in Middlewares : handleAPITokenBegin(q, b, mw)
    \/ \E q \in AuthReqs : handleAPITokenFind(q)
    \/ \E q \in AuthReqs : handleAPITokenCheck(q)
    \/ \E q \in AuthReqs : handleAPITokenUse(q)

(***************************************************************************)
(* Per-owner resources: apps, their domains and deployments                *)
(***************************************************************************)
\* number of requests against the app endpoints
MaxWebCalls == 3

\* authenticated users
Owners == {"u1", "u2"}
\* valid app names
AppNames == {"n1"}
\* valid hostnames
Hosts == {"h1"}
\* the domain field of a request body: a valid hostname, or empty
HostInputs == Hosts \cup {""}
\* concurrent requests against the app endpoints
WebReqs == {"r1", "r2"}
\* the endpoints: POST /api/apps, DELETE /api/apps/:name, POST and DELETE
\* of a domain, POST of a deployment, POST of a rollback
WebKinds == {"createApp", "deleteApp", "addDomain", "deleteDomain",
             "createDeployment", "rollback"}
\* row ids the database can hand out (gen_random_uuid)
RowIDs == 1..MaxWebCalls

\* the JSON answers of the handlers
Answer(status, error) == [status |-> status, error |-> error]

NoAnswer == Answer(0, "")

AppNotFound == Answer(404, "app not found")

IdleWeb ==
    [kind |-> "", user |-> "", name |-> "", host |-> "", dep |-> 0,
     appID |-> 0, rowID |-> 0, answer |-> NoAnswer,
     looked |-> FALSE, owned |-> FALSE, crossOwner |-> FALSE, violation |-> FALSE]

\* what a step of the app endpoints leaves alone
WebFrame == UNCHANGED <<dbVars, logVars, k8sVars, now, oauthVars, tokVars, rlVars, burstVars, opsVars, healthVars, rowVars, chainVars>>

InitTenant ==
    /\ ownedApps = {}
    /\ domainsTbl = {}
    /\ depRows = {}
    /\ nextID = 1
    /\ nweb = 0
    /\ apc = [r \in WebReqs |-> "idle"]
    /\ aloc = [r \in WebReqs |-> IdleWeb]

\* a lookup by name alone
GetAppByName_AnyOwner(rows, u, n) == {a \in rows : a.name = n}

\* -- name: GetAppByName :one   WHERE user_id = $1 AND name = $2
GetAppByName(rows, u, n) == {a \in rows : a.user = u /\ a.name = n}

\* -- name: GetDomainByName :one   WHERE domain = $1
GetDomainByName(rows, h) == {d \in rows : d.domain = h}

\* -- name: GetDeploymentByID :one   WHERE id = $1  (deployments of the owners)
GetOwnedDeploymentByID(rows, id) == {d \in rows : d.id = id}

\* the only element of a result set of one row
TheRow(S) == CHOOSE x \in S : TRUE

\* the handler answers and returns
WebRespond(r, loc, answer) ==
    /\ apc' = [apc EXCEPT ![r] = "done"]
    /\ aloc' = [aloc EXCEPT ![r] = [loc EXCEPT !.answer = answer]]

\* a request arrives, authenticated as user u; bodies are validated before
\* any statement runs (domains Post answers 400 for an empty domain,
\* rollback Post for an id that is no uuid)
WebBegin(r, kind, u, n, h, dep) ==
    /\ apc[r] \in {"idle", "done"}
    /\ nweb < MaxWebCalls
    /\ nweb' = nweb + 1
    \* only the domain endpoints read a domain, only rollback a deployment id
    /\ kind \notin {"addDomain", "deleteDomain"} => h = ""
    /\ kind = "deleteDomain" => h # ""
    /\ kind # "rollback" => dep = 0
    /\ LET loc == [IdleWeb EXCEPT !.kind = kind, !.user = u, !.name = n,
                                  !.host = h, !.dep = dep]
       IN  IF kind = "addDomain" /\ h = ""
           THEN WebRespond(r, loc, Answer(400, "domain is required"))
           ELSE /\ apc' = [apc EXCEPT ![r] = "lookup"]
                /\ aloc' = [aloc EXCEPT ![r] = loc]
    /\ UNCHANGED <<ownedApps, domainsTbl, depRows, nextID>>
    /\ WebFrame

\* queries.GetAppByName(userID, name): apps Post answers 409 when it finds
\* a row, every per-app endpoint answers 404 when it finds none
WebGetAppByName(r) ==
    /\ apc[r] = "lookup"
    /\ LET found == GetAppByName(ownedApps, aloc[r].user, aloc[r].name)
           loc == [aloc[r] EXCEPT
                      !.looked = TRUE,
                      !.owned = found # {},
                      !.crossOwner = \E a \in ownedApps :
                                         a.name = aloc[r].name /\ a.user # aloc[r].user,
                      !.appID = IF found = {} THEN 0 ELSE TheRow(found).id]
       IN  IF aloc[r].kind = "createApp"
           THEN IF found # {}
                THEN WebRespond(r, loc, Answer(409, "app with this name already exists"))
                ELSE /\ apc' = [apc EXCEPT ![r] = "write"]
                     /\ aloc' = [aloc EXCEPT ![r] = loc]
           ELSE IF found = {}
                THEN WebRespond(r, loc, AppNotFound)
                ELSE /\ apc' = [apc EXCEPT ![r] =
                                    IF aloc[r].kind \in {"deleteApp", "createDeployment"}
                                    THEN "write" ELSE "second"]
                     /\ aloc' = [aloc EXCEPT ![r] = loc]
    /\ UNCHANGED <<ownedApps, domainsTbl, depRows, nextID, nweb>>
    /\ WebFrame

\* the second lookup of the domain and rollback endpoints
WebSecond(r) ==
    /\ apc[r] = "second"
    /\ LET loc == aloc[r]
           doms == GetDomainByName(domainsTbl, loc.host)
           deps == GetOwnedDeploymentByID(depRows, loc.dep)
           goOn(id) == /\ apc' = [apc EXCEPT ![r] = "write"]
                       /\ aloc' = [aloc EXCEPT ![r].rowID = id]
       IN  CASE loc.kind = "addDomain" ->
                    IF doms # {}
                    THEN WebRespond(r, loc, Answer(409, "domain already exists"))
                    ELSE goOn(0)
             [] loc.kind = "deleteDomain" ->
                    IF doms = {} \/ TheRow(doms).app # loc.appID
                    THEN WebRespond(r, loc, Answer(404, "domain not found"))
                    ELSE goOn(TheRow(doms).id)
             [] OTHER ->
                    IF loc.dep = 0
                    THEN WebRespond(r, loc, Answer(400, "invalid deployment id"))
                    ELSE IF deps = {} \/ TheRow(deps).app # loc.appID
                    THEN WebRespond(r, loc, Answer(404, "deployment not found"))
                    ELSE goOn(loc.dep)
    /\ UNCHANGED <<ownedApps, domainsTbl, depRows, nextID, nweb>>
    /\ WebFrame

\* the constraint UNIQUE(user_id, name) of the apps table: the key is taken
UserNameTaken(rows, u, n) == \E a \in rows : a.user = u /\ a.name = n

\* -- name: CreateApp :one   INSERT INTO apps ...
CreateApp(r) ==
    IF UserNameTaken(ownedApps, aloc[r].user, aloc[r].name)
    THEN /\ WebRespond(r, [aloc[r] EXCEPT !.violation = TRUE],
                       Answer(500, "failed to create app"))
         /\ UNCHANGED <<ownedApps, nextID>>
    ELSE /\ ownedApps' = ownedApps \cup
                 {[id |-> nextID, user |-> aloc[r].user, name |-> aloc[r].name]}
         /\ nextID' = nextID + 1
         /\ WebRespond(r, aloc[r], Answer(201, ""))

\* -- name: CreateDomain :one   INSERT INTO domains ...; domain UNIQUE,
\* app_id REFERENCES apps(id)
CreateDomain(r) ==
    IF GetDomainByName(domainsTbl, aloc[r].host) # {}
    THEN /\ WebRespond(r, [aloc[r] EXCEPT !.violation = TRUE],
                       Answer(500, "failed to create domain"))
         /\ UNCHANGED <<domainsTbl, nextID>>
    ELSE IF aloc[r].appID \notin {a.id : a \in ownedApps}
    THEN /\ WebRespond(r, aloc[r], Answer(500, "failed to create domain"))
         /\ UNCHANGED <<domainsTbl, nextID>>
    ELSE /\ domainsTbl' = domainsTbl \cup
                 {[id |-> nextID, domain |-> aloc[r].host, app |-> aloc[r].appID]}
         /\ nextID' = nextID + 1
         /\ WebRespond(r, aloc[r], Answer(201, ""))

\* the INSERT INTO deployments of deployments Post and rollback Post;
\* app_id REFERENCES apps(id)
CreateOwnedDeployment(r) ==
    IF aloc[r].appID \notin {a.id : a \in ownedApps}
    THEN /\ WebRespond(r, aloc[r], Answer(500, "failed to create deployment"))
         /\ UNCHANGED <<depRows, nextID>>
    ELSE /\ depRows' = depRows \cup {[id |-> nextID, app |-> aloc[r].appID]}
         /\ nextID' = nextID + 1
         /\ WebRespond(r, aloc[r], Answer(201, ""))

\* the statement that changes the tables, and the answer
WebWrite(r) ==
    /\ apc[r] = "write"
    /\ CASE aloc[r].kind = "createApp" ->
                /\ CreateApp(r)
                /\ UNCHANGED <<domainsTbl, depRows>>
         [] aloc[r].kind = "deleteApp" ->
                \* DELETE FROM apps WHERE id = $1, ON DELETE CASCADE
                /\ ownedApps' = {a \in ownedApps : a.id # aloc[r].appID}
                /\ domainsTbl' = {d \in domainsTbl : d.app # aloc[r].appID}
                /\ depRows' = {d \in depRows : d.app # aloc[r].appID}
                /\ WebRespond(r, aloc[r], Answer(204, ""))
                /\ UNCHANGED nextID
         [] aloc[r].kind = "addDomain" ->
                /\ CreateDomain(r)
                /\ UNCHANGED <<ownedApps, depRows>>
         [] aloc[r].kind = "deleteDomain" ->
                \* DELETE FROM domains WHERE id = $1
                /\ domainsTbl' = {d \in domainsTbl : d.id # aloc[r].rowID}
                /\ WebRespond(r, aloc[r], Answer(204, ""))
                /\ UNCHANGED <<ownedApps, depRows, nextID>>
         [] OTHER ->
                /\ CreateOwnedDeployment(r)
                /\ UNCHANGED <<ownedApps, domainsTbl>>
    /\ UNCHANGED nweb
    /\ WebFrame

NextTenant ==
    \/ \E r \in WebReqs, kind \in WebKinds, u \in Owners, n \in AppNames,
          h \in HostInputs, dep \in 0..MaxWebCalls : WebBegin(r, kind, u, n, h, dep)
    \/ \E r \in WebReqs : WebGetAppByName(r)
    \/ \E r \in WebReqs : WebSecond(r)
    \/ \E r \in WebReqs : WebWrite(r)

(***************************************************************************)
(* The per-IP rate limiter                                                 *)
(***************************************************************************)
\* number of requests that reach the rate limiter
MaxRateCalls == 4
\* tokens a bucket gains per clock unit, and its capacity (NewRateLimiter)
LimiterRate == 1

LimiterBurst == 2
\* age of lastSeen, in clock units, beyond which the sweeper drops a visitor
StaleAfter == 1

\* client addresses getClientIP can return
IPs == {"ip1", "ip2"}
\* concurrent requests in the rate limit middleware
RateReqs == {"x1", "x2"}

\* no entry of the visitors map under this address
NoVisitor == [present |-> FALSE, lim |-> 0, lastSeen |-> 0]

IdleRate == [ip |-> "", lim |-> 0, status |-> 0, retryAfter |-> 0, next |-> FALSE]

\* what a step of the rate limiter leaves alone
RateFrame == UNCHANGED <<dbVars, logVars, k8sVars, now, oauthVars, tokVars, tenVars, burstVars, opsVars, healthVars, rowVars, chainVars>>

InitRate ==
    /\ visitors = [ip \in IPs |-> NoVisitor]
    /\ limiters = <<>>
    /\ nrate = 0
    /\ rpc = [x \in RateReqs |-> "idle"]
    /\ rloc = [x \in RateReqs |-> IdleRate]

Min(a, b) == IF a < b THEN a ELSE b

\* rate.NewLimiter(rl.rate, rl.burst): the first use finds the bucket full
NewLimiter(t) == [tokens |-> LimiterBurst, last |-> t]

\* the tokens of a bucket at time t: refilled at LimiterRate since the last
\* withdrawal, capped at LimiterBurst
Available(lim, t) == Min(LimiterBurst, lim.tokens + (t - lim.last) * LimiterRate)

\* a limiter that lets a request through only when more than one token is left
LimiterAllow_OffByOne(lim, t) ==
    IF Available(lim, t) > 1
    THEN [ok |-> TRUE, lim |-> [tokens |-> Available(lim, t) - 1, last |-> t]]
    ELSE [ok |-> FALSE, lim |-> lim]

\* limiter.Allow(): take one token if there is one, without waiting; a
\* refused call leaves the bucket as it was
LimiterAllow(lim, t) ==
    IF Available(lim, t) >= 1
    THEN [ok |-> TRUE, lim |-> [tokens |-> Available(lim, t) - 1, last |-> t]]
    ELSE [ok |-> FALSE, lim |-> lim]

\* RateLimitMiddleware: ip := getClientIP(c)
RateBegin(x, ip) ==
    /\ rpc[x] \in {"idle", "done"}
    /\ nrate < MaxRateCalls
    /\ nrate' = nrate + 1
    /\ rpc' = [rpc EXCEPT ![x] = "getVisitor"]
    /\ rloc' = [rloc EXCEPT ![x] = [IdleRate EXCEPT !.ip = ip]]
    /\ UNCHANGED <<visitors, limiters>>
    /\ RateFrame

\* a lookup that misses the entry another request has just stored and puts
\* a limiter of its own in the map
getVisitor_AlwaysNew(x) ==
    /\ rpc[x] = "getVisitor"
    /\ limiters' = Append(limiters, NewLimiter(now))
    /\ visitors' = [visitors EXCEPT ![rloc[x].ip] =
                        [present |-> TRUE, lim |-> Len(limiters) + 1, lastSeen |-> now]]
    /\ rloc' = [rloc EXCEPT ![x].lim = Len(limiters) + 1]
    /\ rpc' = [rpc EXCEPT ![x] = "allow"]
    /\ UNCHANGED nrate
    /\ RateFrame

\* getVisitor under rl.mu: create the visitor with a new limiter when the
\* address is not in the map, refresh lastSeen otherwise
getVisitor(x) ==
    /\ rpc[x] = "getVisitor"
    /\ LET ip == rloc[x].ip IN
       IF ~visitors[ip].present
       THEN /\ limiters' = Append(limiters, NewLimiter(now))
            /\ visitors' = [visitors EXCEPT ![ip] =
                                [present |-> TRUE, lim |-> Len(limiters) + 1,
                                 lastSeen |-> now]]
            /\ rloc' = [rloc EXCEPT ![x].lim = Len(limiters) + 1]
       ELSE /\ visitors' = [visitors EXCEPT ![ip].lastSeen = now]
            /\ rloc' = [rloc EXCEPT ![x].lim = visitors[ip].lim]
            /\ UNCHANGED limiters
    /\ rpc' = [rpc EXCEPT ![x] = "allow"]
    /\ UNCHANGED nrate
    /\ RateFrame

\* limiter.Allow() and the answer: 429 with Retry-After: 1 and no call of
\* next, or next(c)
RateLimitMiddleware(x) ==
    /\ rpc[x] = "allow"
    /\ LET res == LimiterAllow(limiters[rloc[x].lim], now) IN
       /\ limiters' = [limiters EXCEPT ![rloc[x].lim] = res.lim]
       /\ rloc' = [rloc EXCEPT ![x] =
                       IF res.ok
                       THEN [@ EXCEPT !.status = 200, !.next = TRUE]
                       ELSE [@ EXCEPT !.status = 429, !.retryAfter = 1, !.next = FALSE]]
    /\ rpc' = [rpc EXCEPT ![x] = "done"]
    /\ UNCHANGED <<visitors, nrate>>
    /\ RateFrame

\* a sweep that already drops a visitor whose age has reached StaleAfter
cleanupLoop_AtThreshold ==
    /\ \E ip \in IPs : visitors[ip].present /\ now - visitors[ip].lastSeen >= StaleAfter
    /\ visitors' = [ip \in IPs |->
                        IF visitors[ip].present /\ now - visitors[ip].lastSeen >= StaleAfter
                        THEN NoVisitor ELSE visitors[ip]]
    /\ UNCHANGED <<limiters, nrate, rpc, rloc>>
    /\ RateFrame

\* cleanupLoop under rl.mu: drop every visitor not seen for more than
\* StaleAfter
cleanupLoop ==
    /\ \E ip \in IPs : visitors[ip].present /\ now - visitors[ip].lastSeen > StaleAfter
    /\ visitors' = [ip \in IPs |->
                        IF visitors[ip].present /\ now - visitors[ip].lastSeen > StaleAfter
                        THEN NoVisitor ELSE visitors[ip]]
    /\ UNCHANGED <<limiters, nrate, rpc, rloc>>
    /\ RateFrame

NextRate ==
    \/ Tick
    \/ \E x \in RateReqs, ip \in IPs : RateBegin(x, ip)
    \/ \E x \in RateReqs : getVisitor(x)
    \/ \E x \in RateReqs : RateLimitMiddleware(x)
    \/ cleanupLoop

(***************************************************************************)
(* The rate limiter as configured: one client's burst                      *)
(***************************************************************************)
\* globalRateLimiter = NewRateLimiter(100, 200): tokens per second, capacity
ConfiguredRate == 100

ConfiguredBurst == 200
\* instants per second at which requests of the burst can arrive
TicksPerSecond == 4
\* number of requests the client sends
MaxBurstReqs == 301

\* tokens a bucket gains from one instant to the next
TokensPerTick == ConfiguredRate \div TicksPerSecond

\* what a step of the burst leaves alone
BurstFrame == UNCHANGED <<dbVars, logVars, k8sVars, now, oauthVars, tokVars, tenVars, rlVars, opsVars, healthVars, rowVars, chainVars>>

\* the client's bucket is full and has been idle for a second
InitBurst ==
    /\ bnow = 0
    /\ blim = [tokens |-> ConfiguredBurst, last |-> 0 - TicksPerSecond]
    /\ bsent = 0
    /\ bdenied = FALSE

\* a bucket whose refill is not capped at its capacity
ConfiguredAllow_Uncapped(lim, t) ==
    LET avail == lim.tokens + (t - lim.last) * TokensPerTick IN
    IF avail >= 1
    THEN [ok |-> TRUE, lim |-> [tokens |-> avail - 1, last |-> t]]
    ELSE [ok |-> FALSE, lim |-> lim]

\* limiter.Allow() of the configured limiter at instant t
ConfiguredAllow(lim, t) ==
    LET avail == Min(ConfiguredBurst, lim.tokens + (t - lim.last) * TokensPerTick) IN
    IF avail >= 1
    THEN [ok |-> TRUE, lim |-> [tokens |-> avail - 1, last |-> t]]
    ELSE [ok |-> FALSE, lim |-> lim]

\* one request of the client passes RateLimitMiddleware: next(c), or 429
\* with Retry-After: 1
BurstRequest ==
    /\ bsent < MaxBurstReqs
    /\ bsent' = bsent + 1
    /\ LET res == ConfiguredAllow(blim, bnow) IN
       /\ blim' = res.lim
       /\ bdenied' = (bdenied \/ ~res.ok)
    /\ UNCHANGED bnow
    /\ BurstFrame

\* time moves on to the next instant
BurstTick ==
    /\ bnow < TicksPerSecond + 1
    /\ bnow' = bnow + 1
    /\ UNCHANGED <<blim, bsent, bdenied>>
    /\ BurstFrame

NextBurst == BurstRequest \/ BurstTick

(***************************************************************************)
(* The app management endpoints: create and update an app, add a domain,   *)
(* create a deployment, scale, restart, read and replace the environment   *)
(***************************************************************************)
\* requests in flight against the management endpoints
OpsReqs == {"o1", "o2"}
\* the endpoints
OpsKinds == {"createApp", "updateApp", "addDomain", "createDeployment",
             "scale", "restart", "envPut", "envGet"}
\* the endpoints that change state when they succeed
StateChanging == OpsKinds \ {"envGet"}

\* characters of the request strings
LowerCase == {"a", "b", "c", "o"}

UpperCase == {"A"}

Digits == {"1"}

Letters == LowerCase \cup UpperCase

Alnum == Letters \cup Digits

\* the app u1 owns from the start
FirstApp == <<"a", "b", "c">>
\* the name field of an apps Post body
NameInputs ==
    {<<>>, <<"a", "b">>, FirstApp, <<"a", "-", "1">>,
     <<"1", "b", "c">>, <<"a", "b", "-">>, <<"A", "b", "c">>}
\* the domain field of a domains Post body
DomainInputs ==
    {<<>>, <<"a", ".", "c", "o">>, <<"a", "-", "1", ".", "b", ".", "c", "o">>,
     <<"a", ".", "c">>, <<"-", "a", ".", "c", "o">>,
     <<"a", " ", "b", ".", "c", "o">>, <<"c", "o">>, <<"a", ".", "c", "1">>}
\* region and size fields: absent, valid, invalid
RegionInputs == {"", "mex", "xx"}

SizeInputs == {"", "xx"}

ImageInputs == {"", "img"}

\* validRegions and validSizes of apps Post and app Put
validRegions == {"gdl", "mex", "qro"}

validSizes == {"starter", "pro", "enterprise"}

\* if req.Replicas < 0 || req.Replicas > 10
ScaleMin == 0

ScaleMax == 10

ReplicaInputs == {ScaleMin - 1, ScaleMin, 3, ScaleMax, ScaleMax + 1}

\* len(req.Name) < 3 || len(req.Name) > 63
NameMinLen == 3

NameMaxLen == 63

\* environment maps, as sets of <<key, value>> with one value per key
EnvKeys == <<"K1", "K2">>

PreviousEnv == {<<"K1", "v0">>}

EnvInputs == {{}, {<<"K1", "v1">>}, {<<"K2", "v2">>}}
\* nonces rand.Reader can produce
Nonces == {"n1", "n2"}

Redaction == "********"

\* appNameRegex: ^[a-z][a-z0-9-]*[a-z0-9]$
appNameRegex(s) ==
    /\ Len(s) >= 2
    /\ s[1] \in LowerCase
    /\ s[Len(s)] \in LowerCase \cup Digits
    /\ \A i \in 2..(Len(s) - 1) : s[i] \in LowerCase \cup Digits \cup {"-"}

\* domainRegex: ^([a-zA-Z0-9]([a-zA-Z0-9-]{0,61}[a-zA-Z0-9])?\.)+[a-zA-Z]{2,}$
domainRegex(s) ==
    LET dots == {i \in 1..Len(s) : s[i] = "."}
    IN  /\ dots # {}
        /\ LET d == CHOOSE i \in dots : \A j \in dots : j <= i
           IN  /\ Len(s) - d >= 2
               /\ \A i \in (d + 1)..Len(s) : s[i] \in Letters
               /\ s[1] \in Alnum
               /\ \A i \in 1..d :
                     IF s[i] = "."
                     THEN /\ i > 1 /\ s[i - 1] \in Alnum
                          /\ i < d => s[i + 1] \in Alnum
                     ELSE s[i] \in Alnum \cup {"-"}
               /\ \A i \in 1..d : i + 63 <= d => \E j \in i..(i + 63) : s[j] = "."

\* json.Marshal of a map: the pairs in key order
Marshal(M) ==
    LET ks == SelectSeq(EnvKeys, LAMBDA k : \E p \in M : p[1] = k)
    IN  [i \in 1..Len(ks) |-> CHOOSE p \in M : p[1] = ks[i]]

\* json.Unmarshal into a map: the last pair of a key wins
Unmarshal(text) ==
    {text[i] : i \in {i \in 1..Len(text) :
                         \A j \in (i + 1)..Len(text) : text[j][1] # text[i][1]}}

\* gcm.Seal(nonce, nonce, plaintext, nil): the nonce, then the sealed text
Encrypt(M, nonce) == <<<<"nonce", nonce>>>> \o Marshal(M)

\* Decrypt: empty bytes are the empty map, else drop the nonce and unmarshal
Decrypt(ciphertext) ==
    IF Len(ciphertext) = 0 THEN {} ELSE Unmarshal(Tail(ciphertext))

\* for key := range envVars { envVars[key] = "********" }
Redact(M) == {<<p[1], Redaction>> : p \in M}

\* an update that keeps the keys the new map does not name
UpdateAppEnvVars_Merge(rows, id, M, nonce) ==
    {IF a.id = id
     THEN [a EXCEPT !.env = Encrypt(M \cup {p \in Decrypt(a.env) :
                                              \A q \in M : q[1] # p[1]}, nonce),
                    !.lastPut = M]
     ELSE a : a \in rows}

\* -- name: UpdateAppEnvVars :one   SET env_vars_encrypted = $2 WHERE id = $1
UpdateAppEnvVars(rows, id, M, nonce) ==
    {IF a.id = id THEN [a EXCEPT !.env = Encrypt(M, nonce), !.lastPut = M]
     ELSE a : a \in rows}

\* replicas strictly inside the range
ValidReplicas_Exclusive(n) == n > ScaleMin /\ n < ScaleMax

\* !(req.Replicas < 0 || req.Replicas > 10)
ValidReplicas(n) == ~(n < ScaleMin \/ n > ScaleMax)

BaseInput ==
    [kind |-> "", user |-> "u1", appName |-> <<>>, region |-> "", size |-> "",
     domain |-> <<>>, image |-> "", replicas |-> 0, vars |-> {}, redacted |-> TRUE]

\* the requests that arrive: the fields an endpoint does not read stay at
\* their zero values
OpsInputs ==
    {[BaseInput EXCEPT !.kind = "createApp", !.appName = n] :
         n \in NameInputs}
    \cup {[BaseInput EXCEPT !.kind = "createApp", !.appName = FirstApp, !.user = "u2",
                            !.region = g, !.size = z] :
             g \in RegionInputs, z \in SizeInputs}
    \cup {[BaseInput EXCEPT !.kind = "updateApp", !.user = u, !.region = g, !.size = z] :
             u \in Owners, g \in RegionInputs, z \in SizeInputs}
    \cup {[BaseInput EXCEPT !.kind = "addDomain", !.domain = d] : d \in DomainInputs}
    \cup {[BaseInput EXCEPT !.kind = "addDomain", !.user = "u2",
                            !.domain = <<"a", ".", "c", "o">>]}
    \cup {[BaseInput EXCEPT !.kind = "createDeployment", !.user = u, !.image = i] :
             u \in Owners, i \in ImageInputs}
    \cup {[BaseInput EXCEPT !.kind = "scale", !.user = u, !.replicas = n] :
             u \in Owners, n \in ReplicaInputs}
    \cup {[BaseInput EXCEPT !.kind = "restart", !.user = u] : u \in Owners}
    \cup {[BaseInput EXCEPT !.kind = "envPut", !.vars = M] : M \in EnvInputs}
    \cup {[BaseInput EXCEPT !.kind = "envGet", !.redacted = b] : b \in BOOLEAN}

\* the locals of a handler
OpsIdle ==
    [in |-> BaseInput, region |-> "", size |-> "", answer |-> NoAnswer,
     variables |-> {}, appID |-> 0, nextVersion |-> 0, depID |-> 0,
     looked |-> FALSE, owned |-> FALSE, wrote |-> FALSE, called |-> FALSE,
     raced |-> FALSE, seenPut |-> {}, ownedAtArrival |-> FALSE]

OpsFrame == UNCHANGED <<dbVars, logVars, k8sVars, now, oauthVars, tokVars, tenVars, rlVars, burstVars, healthVars, rowVars, chainVars>>

InitOps ==
    /\ opsApps = {[id |-> 1, user |-> "u1", name |-> FirstApp, region |-> "gdl",
                   size |-> "starter", env |-> Encrypt(PreviousEnv, "n1"),
                   lastPut |-> PreviousEnv, count |-> 0, status |-> "stopped",
                   current |-> 0]}
    /\ opsDomains = {}
    /\ opsDeploys = {}
    /\ activityLogs = {}
    /\ opsReplicas = 1
    /\ clusterCalls = {}
    /\ opsPc = [r \in OpsReqs |-> "idle"]
    /\ opsLoc = [r \in OpsReqs |-> OpsIdle]

\* the handler answers and returns
OpsRespond(r, loc, answer) ==
    /\ opsPc' = [opsPc EXCEPT ![r] = "done"]
    /\ opsLoc' = [opsLoc EXCEPT ![r] = [loc EXCEPT !.answer = answer]]

\* the handler goes on to its next statement
OpsGoto(r, loc, pc) ==
    /\ opsPc' = [opsPc EXCEPT ![r] = pc]
    /\ opsLoc' = [opsLoc EXCEPT ![r] = loc]

\* apps Post up to its first query: the name, then the defaults of region
\* and size, then their membership
ValidateCreateApp(r, loc) ==
    LET in == loc.in
        region == IF in.region = "" THEN "gdl" ELSE in.region
        size == IF in.size = "" THEN "starter" ELSE in.size
    IN  IF in.appName = <<>>
        THEN OpsRespond(r, loc, Answer(400, "name is required"))
        ELSE IF Len(in.appName) < NameMinLen \/ Len(in.appName) > NameMaxLen
        THEN OpsRespond(r, loc, Answer(400, "name must be between 3 and 63 characters"))
        ELSE IF ~appNameRegex(in.appName)
        THEN OpsRespond(r, loc, Answer(400, "invalid name"))
        ELSE IF region \notin validRegions
        THEN OpsRespond(r, loc, Answer(400, "invalid region"))
        ELSE IF size \notin validSizes
        THEN OpsRespond(r, loc, Answer(400, "invalid size"))
        ELSE OpsGoto(r, [loc EXCEPT !.region = region, !.size = size], "lookup")

\* a request arrives and the handler runs up to its first query
OpsBegin(r, in) ==
    /\ opsPc[r] = "idle"
    /\ LET loc == [OpsIdle EXCEPT
                      !.in = in,
                      !.ownedAtArrival = GetAppByName(opsApps, in.user, FirstApp) # {}]
       IN  CASE in.kind = "createApp" -> ValidateCreateApp(r, loc)
             [] in.kind = "addDomain" ->
                    IF in.domain = <<>>
                    THEN OpsRespond(r, loc, Answer(400, "domain is required"))
                    ELSE IF ~domainRegex(in.domain)
                    THEN OpsRespond(r, loc, Answer(400, "invalid domain format"))
                    ELSE OpsGoto(r, loc, "lookup")
             [] in.kind = "createDeployment" ->
                    IF in.image = ""
                    THEN OpsRespond(r, loc, Answer(400, "image is required"))
                    ELSE OpsGoto(r, loc, "lookup")
             [] in.kind = "scale" ->
                    IF ~ValidReplicas(in.replicas)
                    THEN OpsRespond(r, loc, Answer(400, "replicas must be between 0 and 10"))
                    ELSE OpsGoto(r, loc, "lookup")
             [] OTHER -> OpsGoto(r, loc, "lookup")
    /\ UNCHANGED <<opsApps, opsDomains, opsDeploys, activityLogs, opsReplicas, clusterCalls>>
    /\ OpsFrame

\* the name the handler looks up: the body's name for apps Post, the path's
\* for the per-app endpoints
LookupName(in) == IF in.kind = "createApp" THEN in.appName ELSE FirstApp

\* app Put after its lookup: region and size default to the stored ones
ValidateUpdateApp(r, loc, app) ==
    LET in == loc.in
    IN  IF in.region # "" /\ in.region \notin validRegions
        THEN OpsRespond(r, loc, Answer(400, "invalid region"))
        ELSE IF in.size # "" /\ in.size \notin validSizes
        THEN OpsRespond(r, loc, Answer(400, "invalid size"))
        ELSE OpsGoto(r, [loc EXCEPT
                            !.region = IF in.region # "" THEN in.region ELSE app.region,
                            !.size = IF in.size # "" THEN in.size ELSE app.size],
                     "write")

\* env Get after its lookup
EnvGet(r, loc, app) ==
    LET envVars == Decrypt(app.env)
        seen == [loc EXCEPT !.seenPut = app.lastPut]
    IN  IF Len(app.env) = 0
        THEN OpsRespond(r, seen, Answer(200, ""))
        ELSE OpsRespond(r, [seen EXCEPT !.variables =
                                IF loc.in.redacted THEN Redact(envVars) ELSE envVars],
                        Answer(200, ""))

\* queries.GetAppByName(userID, name) and what follows it without another
\* statement
OpsGetAppByName(r) ==
    /\ opsPc[r] = "lookup"
    /\ LET in == opsLoc[r].in
           found == GetAppByName(opsApps, in.user, LookupName(in))
           loc == [opsLoc[r] EXCEPT !.looked = TRUE, !.owned = found # {},
                      !.appID = IF found = {} THEN 0 ELSE TheRow(found).id]
       IN  IF in.kind = "createApp"
           THEN IF found # {}
                THEN OpsRespond(r, loc, Answer(409, "app with this name already exists"))
                ELSE OpsGoto(r, loc, "write")
           ELSE IF found = {}
           THEN OpsRespond(r, loc, AppNotFound)
           ELSE CASE in.kind = "updateApp" -> ValidateUpdateApp(r, loc, TheRow(found))
                  [] in.kind = "envGet" -> EnvGet(r, loc, TheRow(found))
                  [] in.kind \in {"addDomain", "createDeployment"} -> OpsGoto(r, loc, "second")
                  [] in.kind \in {"scale", "restart"} -> OpsGoto(r, loc, "cluster")
                  [] OTHER -> OpsGoto(r, loc, "write")
    /\ UNCHANGED <<opsApps, opsDomains, opsDeploys, activityLogs, opsReplicas, clusterCalls>>
    /\ OpsFrame

\* the second query: GetDomainByName of domains Post, GetLatestDeployment
\* of deployments Post
OpsSecond(r) ==
    /\ opsPc[r] = "second"
    /\ LET loc == opsLoc[r]
           versions == {d.version : d \in {d \in opsDeploys : d.app = loc.appID}}
           latest == IF versions = {} THEN 0
                     ELSE CHOOSE v \in versions : \A w \in versions : w <= v
       IN  IF loc.in.kind = "addDomain"
           THEN IF GetDomainByName(opsDomains, loc.in.domain) # {}
                THEN OpsRespond(r, loc, Answer(409, "domain already exists"))
                ELSE OpsGoto(r, loc, "write")
           ELSE OpsGoto(r, [loc EXCEPT !.nextVersion = latest + 1], "write")
    /\ UNCHANGED <<opsApps, opsDomains, opsDeploys, activityLogs, opsReplicas, clusterCalls>>
    /\ OpsFrame

\* the first statement that changes a table
OpsWrite(r) ==
    /\ opsPc[r] = "write"
    /\ LET loc == [opsLoc[r] EXCEPT !.wrote = TRUE]
           in == loc.in
       IN  CASE in.kind = "createApp" ->
                    \* CreateApp: UNIQUE(user_id, name)
                    /\ IF UserNameTaken(opsApps, in.user, in.appName)
                       THEN /\ OpsRespond(r, opsLoc[r], Answer(500, "failed to create app"))
                            /\ UNCHANGED opsApps
                       ELSE /\ opsApps' = opsApps \cup
                                  {[id |-> Cardinality(opsApps) + 1, user |-> in.user,
                                    name |-> in.appName, region |-> loc.region,
                                    size |-> loc.size, env |-> <<>>, lastPut |-> {},
                                    count |-> 0, status |-> "stopped", current |-> 0]}
                            /\ OpsRespond(r, loc, Answer(201, ""))
                    /\ UNCHANGED <<opsDomains, opsDeploys>>
             [] in.kind = "updateApp" ->
                    \* UpdateApp: SET name, region, size WHERE id = $1
                    /\ opsApps' = {IF a.id = loc.appID
                                   THEN [a EXCEPT !.region = loc.region, !.size = loc.size]
                                   ELSE a : a \in opsApps}
                    /\ OpsRespond(r, loc, Answer(200, ""))
                    /\ UNCHANGED <<opsDomains, opsDeploys>>
             [] in.kind = "addDomain" ->
                    \* CreateDomain: domain UNIQUE
                    /\ IF GetDomainByName(opsDomains, in.domain) # {}
                       THEN /\ OpsRespond(r, opsLoc[r], Answer(500, "failed to create domain"))
                            /\ UNCHANGED opsDomains
                       ELSE /\ opsDomains' = opsDomains \cup
                                  {[domain |-> in.domain, app |-> loc.appID]}
                            /\ OpsRespond(r, loc, Answer(201, ""))
                    /\ UNCHANGED <<opsApps, opsDeploys>>
             [] in.kind = "envPut" ->
                    \* crypto.Encrypt, then UpdateAppEnvVars
                    /\ \E nonce \in Nonces :
                          opsApps' = UpdateAppEnvVars(opsApps, loc.appID, in.vars, nonce)
                    /\ OpsRespond(r, [loc EXCEPT
                                         !.variables = Redact(in.vars),
                                         !.raced = \E o \in OpsReqs \ {r} :
                                                      /\ opsLoc[o].in.kind = "envPut"
                                                      /\ opsPc[o] = "write"],
                                  Answer(200, ""))
                    /\ UNCHANGED <<opsDomains, opsDeploys>>
             [] OTHER ->
                    \* CreateDeployment with status pending
                    /\ opsDeploys' = opsDeploys \cup
                          {[id |-> Cardinality(opsDeploys) + 1, app |-> loc.appID,
                            version |-> loc.nextVersion, image |-> in.image]}
                    /\ OpsGoto(r, [loc EXCEPT !.depID = Cardinality(opsDeploys) + 1], "count")
                    /\ UNCHANGED <<opsApps, opsDomains>>
    /\ UNCHANGED <<activityLogs, opsReplicas, clusterCalls>>
    /\ OpsFrame

\* deployments Post: IncrementDeploymentCount
OpsIncrementDeploymentCount(r) ==
    /\ opsPc[r] = "count"
    /\ opsApps' = {IF a.id = opsLoc[r].appID THEN [a EXCEPT !.count = @ + 1] ELSE a :
                      a \in opsApps}
    /\ OpsGoto(r, opsLoc[r], "status")
    /\ UNCHANGED <<opsDomains, opsDeploys, activityLogs, opsReplicas, clusterCalls>>
    /\ OpsFrame

\* deployments Post: UpdateAppStatus(deploying, deployment.ID), then 201
OpsUpdateAppStatus(r) ==
    /\ opsPc[r] = "status"
    /\ opsApps' = {IF a.id = opsLoc[r].appID
                   THEN [a EXCEPT !.status = "deploying", !.current = opsLoc[r].depID]
                   ELSE a : a \in opsApps}
    /\ OpsRespond(r, opsLoc[r], Answer(201, ""))
    /\ UNCHANGED <<opsDomains, opsDeploys, activityLogs, opsReplicas, clusterCalls>>
    /\ OpsFrame

\* k8s.NewClient, then ScaleApp or RestartApp: the client cannot be built,
\* the cluster refuses the call, or the call takes effect
OpsCluster(r) ==
    /\ opsPc[r] = "cluster"
    /\ LET loc == opsLoc[r]
           call == [req |-> r, op |-> loc.in.kind, app |-> FirstApp,
                    replicas |-> loc.in.replicas]
           called == [loc EXCEPT !.called = TRUE]
       IN  \/ /\ OpsRespond(r, loc, Answer(500, "kubernetes not available"))
              /\ UNCHANGED <<opsReplicas, clusterCalls>>
           \/ /\ clusterCalls' = clusterCalls \cup {call}
              /\ OpsRespond(r, called, Answer(500, "cluster error"))
              /\ UNCHANGED opsReplicas
           \/ /\ clusterCalls' = clusterCalls \cup {call}
              /\ opsReplicas' = IF loc.in.kind = "scale" THEN loc.in.replicas
                                ELSE opsReplicas
              /\ OpsRespond(r, [called EXCEPT !.wrote = TRUE], Answer(200, ""))
    /\ UNCHANGED <<opsApps, opsDomains, opsDeploys, activityLogs>>
    /\ OpsFrame

NextOps ==
    \/ \E r \in OpsReqs, in \in OpsInputs : OpsBegin(r, in)
    \/ \E r \in OpsReqs : OpsGetAppByName(r)
    \/ \E r \in OpsReqs : OpsSecond(r)
    \/ \E r \in OpsReqs : OpsWrite(r)
    \/ \E r \in OpsReqs : OpsIncrementDeploymentCount(r)
    \/ \E r \in OpsReqs : OpsUpdateAppStatus(r)
    \/ \E r \in OpsReqs : OpsCluster(r)

(***************************************************************************)
(* GET /api/health                                                         *)
(***************************************************************************)
\* health requests in flight
HealthReqs == {"g1", "g2"}
\* the two Get handlers of package health: with and without the cluster check
HealthHandlers == {"route.go", "part_015"}
\* a dependency as the handler can find it: not wired into the context,
\* wired but failing its probe, wired and answering
DepStates == {"absent", "down", "up"}

IdleHealth ==
    [handler |-> "", status |-> "ok", database |-> "", kubernetes |-> "",
     code |-> 0, seenDB |-> "", seenK8s |-> ""]

HealthFrame == UNCHANGED <<dbVars, logVars, k8sVars, now, oauthVars, tokVars, tenVars, rlVars, burstVars, opsVars, rowVars, chainVars>>

InitHealth ==
    /\ depDB = "up"
    /\ depK8s = "up"
    /\ healthPc = [r \in HealthReqs |-> "idle"]
    /\ healthLoc = [r \in HealthReqs |-> IdleHealth]

\* the database or the cluster fails or recovers, or the server is started
\* again with another wiring
DependencyChange(db, k8s) ==
    /\ <<db, k8s>> # <<depDB, depK8s>>
    /\ depDB' = db
    /\ depK8s' = k8s
    /\ UNCHANGED <<healthPc, healthLoc>>
    /\ HealthFrame

\* response := HealthResponse{Status: "ok", Version: "0.1.0"}
HealthBegin(r, h) ==
    /\ healthPc[r] \in {"idle", "done"}
    /\ healthPc' = [healthPc EXCEPT ![r] = "database"]
    /\ healthLoc' = [healthLoc EXCEPT ![r] = [IdleHealth EXCEPT !.handler = h]]
    /\ UNCHANGED <<depDB, depK8s>>
    /\ HealthFrame

\* pool, ok := c.Get("db"); !ok || pool == nil: disconnected; pool.Ping
\* failing: unhealthy and Status degraded; else healthy
CheckDatabase(loc, db) ==
    CASE db = "absent" -> [loc EXCEPT !.database = "disconnected"]
      [] db = "down" -> [loc EXCEPT !.database = "unhealthy", !.status = "degraded"]
      [] OTHER -> [loc EXCEPT !.database = "healthy"]

\* k8sClient, ok := c.Get("k8s"); ServerVersion(): Status is left alone
CheckKubernetes(loc, k8s) ==
    CASE k8s = "absent" -> [loc EXCEPT !.kubernetes = "disconnected"]
      [] k8s = "down" -> [loc EXCEPT !.kubernetes = "unhealthy"]
      [] OTHER -> [loc EXCEPT !.kubernetes = "healthy"]

HealthCheckDatabase(r) ==
    /\ healthPc[r] = "database"
    /\ healthPc' = [healthPc EXCEPT ![r] =
                       IF healthLoc[r].handler = "route.go" THEN "kubernetes" ELSE "respond"]
    /\ healthLoc' = [healthLoc EXCEPT ![r] =
                        [CheckDatabase(healthLoc[r], depDB) EXCEPT !.seenDB = depDB]]
    /\ UNCHANGED <<depDB, depK8s>>
    /\ HealthFrame

HealthCheckKubernetes(r) ==
    /\ healthPc[r] = "kubernetes"
    /\ healthPc' = [healthPc EXCEPT ![r] = "respond"]
    /\ healthLoc' = [healthLoc EXCEPT ![r] =
                        [CheckKubernetes(healthLoc[r], depK8s) EXCEPT !.seenK8s = depK8s]]
    /\ UNCHANGED <<depDB, depK8s>>
    /\ HealthFrame

\* statusCode := 200; if response.Status != "ok" { statusCode = 503 }
HealthRespond(r) ==
    /\ healthPc[r] = "respond"
    /\ healthPc' = [healthPc EXCEPT ![r] = "done"]
    /\ healthLoc' = [healthLoc EXCEPT ![r] =
                        [healthLoc[r] EXCEPT
                            !.code = IF healthLoc[r].status # "ok" THEN 503 ELSE 200,
                            !.seenK8s = IF healthLoc[r].handler = "route.go"
                                        THEN @ ELSE depK8s]]
    /\ UNCHANGED <<depDB, depK8s>>
    /\ HealthFrame

NextHealth ==
    \/ \E db \in DepStates, k8s \in DepStates : DependencyChange(db, k8s)
    \/ \E r \in HealthReqs, h \in HealthHandlers : HealthBegin(r, h)
    \/ \E r \in HealthReqs : HealthCheckDatabase(r)
    \/ \E r \in HealthReqs : HealthCheckKubernetes(r)
    \/ \E r \in HealthReqs : HealthRespond(r)

(***************************************************************************)
(* The UPDATE statements on a deployment row                               *)
(***************************************************************************)
\* the rows under update
DeploymentIDs == {"dep1", "dep2"}
\* values of the status column
Statuses == {"pending", "building", "deploying", "running", "failed"}
\* values of the message and error columns; "" is NULL
Messages == {"", "m1"}

Errors == {"", "e1"}

RowFrame == UNCHANGED <<dbVars, logVars, k8sVars, now, oauthVars, tokVars, tenVars, rlVars, burstVars, opsVars, healthVars, chainVars>>

\* the row CreateDeployment inserts: status pending, the other columns NULL
InitRows ==
    depTbl = [id \in DeploymentIDs |->
                 [version |-> IF id = "dep1" THEN 1 ELSE 2, image |-> "img1",
                  status |-> "pending", message |-> "", error |-> "",
                  started |-> FALSE, ready |-> FALSE]]

\* -- name: UpdateDeploymentStatus :one  SET status = $2, message = $3, error = $4
UpdateDeploymentStatus(row, status, message, error) ==
    [row EXCEPT !.status = status, !.message = message, !.error = error]

\* -- name: UpdateDeploymentStarted :one  SET status = 'building', started_at = NOW()
UpdateDeploymentStarted(row) ==
    [row EXCEPT !.status = "building", !.started = TRUE]

\* -- name: UpdateDeploymentReady :one  SET status = 'running', ready_at = NOW()
UpdateDeploymentReady(row) ==
    [row EXCEPT !.status = "running", !.ready = TRUE]

\* -- name: UpdateDeploymentFailed :one  SET status = 'failed', error = $2
UpdateDeploymentFailed(row, error) ==
    [row EXCEPT !.status = "failed", !.error = error]

\* a caller runs one of the statements WHERE id = $1
RunUpdateDeploymentStatus(id, status, message, error) ==
    /\ depTbl' = [depTbl EXCEPT ![id] = UpdateDeploymentStatus(@, status, message, error)]
    /\ RowFrame

RunUpdateDeploymentStarted(id) ==
    /\ depTbl' = [depTbl EXCEPT ![id] = UpdateDeploymentStarted(@)]
    /\ RowFrame

RunUpdateDeploymentReady(id) ==
    /\ depTbl' = [depTbl EXCEPT ![id] = UpdateDeploymentReady(@)]
    /\ RowFrame

RunUpdateDeploymentFailed(id, error) ==
    /\ depTbl' = [depTbl EXCEPT ![id] = UpdateDeploymentFailed(@, error)]
    /\ RowFrame

NextRows ==
    \/ \E id \in DeploymentIDs, s \in Statuses, m \in Messages, e \in Errors :
          RunUpdateDeploymentStatus(id, s, m, e)
    \/ \E id \in DeploymentIDs : RunUpdateDeploymentStarted(id)
    \/ \E id \in DeploymentIDs : RunUpdateDeploymentReady(id)
    \/ \E id \in DeploymentIDs, e \in Errors : RunUpdateDeploymentFailed(id, e)

(***************************************************************************)
(* The middleware stack of the server: main registers the global           *)
(* middleware with app.Use in source order, then RegisterRoutes attaches   *)
(* the route middleware of package api (the auth Middleware) and the       *)
(* handlers.  A request enters the functions in that order; each one       *)
(* either calls next or answers itself.                                    *)
(***************************************************************************)
ChainReqs == {"m1", "m2"}
Paths == {"/api/health", "/api/apps"}
Methods == {"GET", "OPTIONS"}
\* the credential of a request: none, or a JWT that ValidateToken accepts or
\* refuses (tokens with the prefix fgt_ take the steps of handleAPIToken)
TokenInputs == {"", "jwt-valid", "jwt-invalid"}
\* allowed is the answer of globalRateLimiter.Allow(ip) for this request
ChainInputs == [path : Paths, method : Methods, allowed : BOOLEAN, token : TokenInputs]

\* publicPaths of IsPublicPath
IsPublicPath(path) == path \in {"/api/health", "/api/auth/login", "/api/auth/callback"}

\* a stack that registers CORS ahead of the rate limiter
UseOrder_CorsFirst ==
    <<"recovery", "request-id", "request-logging", "security-headers",
      "cors", "rate-limit", "dependency-injection">>

\* the app.Use calls of main, in source order
UseOrder ==
    <<"recovery", "request-id", "request-logging", "security-headers",
      "rate-limit", "cors", "dependency-injection">>

\* what RegisterRoutes adds after the last app.Use: Middleware() of package api
RouteMiddleware == <<"auth">>

Chain == UseOrder \o RouteMiddleware \o <<"handler">>

IdleChain ==
    [in |-> [path |-> "", method |-> "", allowed |-> TRUE, token |-> ""],
     next |-> 0, passed |-> <<>>, keys |-> {}, status |-> 0]

ChainFrame == UNCHANGED <<dbVars, logVars, k8sVars, now, oauthVars, tokVars, tenVars, rlVars, burstVars, opsVars, healthVars, rowVars>>

InitChain ==
    /\ mpc = [r \in ChainReqs |-> "idle"]
    /\ mloc = [r \in ChainReqs |-> IdleChain]

ChainBegin(r, in) ==
    /\ mpc[r] = "idle"
    /\ mpc' = [mpc EXCEPT ![r] = "run"]
    /\ mloc' = [mloc EXCEPT ![r] = [IdleChain EXCEPT !.in = in, !.next = 1]]
    /\ ChainFrame

\* the request is inside the function named name
Running(r, name) == mpc[r] = "run" /\ Chain[mloc[r].next] = name

\* return next(c), after c.Set of the keys
CallNext(r, name, keys) ==
    /\ mloc' = [mloc EXCEPT ![r].passed = Append(@, name),
                            ![r].next = @ + 1,
                            ![r].keys = @ \cup keys]
    /\ UNCHANGED mpc
    /\ ChainFrame

\* return c.JSON(status, ...) without calling next
ChainAnswer(r, name, status) ==
    /\ mloc' = [mloc EXCEPT ![r].passed = Append(@, name), ![r].status = status]
    /\ mpc' = [mpc EXCEPT ![r] = "done"]
    /\ ChainFrame

\* a panic unwinds to the deferred recover of RecoveryMiddleware, which
\* answers 500; without it the connection ends with no answer
ChainPanic(r, name) ==
    ChainAnswer(r, name, IF \E i \in 1..Len(mloc[r].passed) : mloc[r].passed[i] = "recovery"
                         THEN 500 ELSE 0)

RecoveryMiddleware(r) ==
    /\ Running(r, "recovery")
    /\ CallNext(r, "recovery", {})

RequestIDMiddleware(r) ==
    /\ Running(r, "request-id")
    /\ CallNext(r, "request-id", {"request_id"})

RequestLoggingMiddleware(r) ==
    /\ Running(r, "request-logging")
    /\ CallNext(r, "request-logging", {})

SecurityHeadersMiddleware(r) ==
    /\ Running(r, "security-headers")
    /\ CallNext(r, "security-headers", {})

\* if !globalRateLimiter.Allow(ip) { return c.JSON(429, ...) }
ChainRateLimit(r) ==
    /\ Running(r, "rate-limit")
    /\ IF mloc[r].in.allowed
       THEN CallNext(r, "rate-limit", {})
       ELSE ChainAnswer(r, "rate-limit", 429)

\* if c.Method() == "OPTIONS" { return c.JSON(204, nil) }
CORSMiddleware(r) ==
    /\ Running(r, "cors")
    /\ IF mloc[r].in.method = "OPTIONS"
       THEN ChainAnswer(r, "cors", 204)
       ELSE CallNext(r, "cors", {})

\* c.Set("db", pool); c.Set("config", cfg)
InjectDependencies(r) ==
    /\ Running(r, "dependency-injection")
    /\ CallNext(r, "dependency-injection", {"db", "config"})

\* Middleware(): public paths pass; c.Get("config").(*config.Config) and
\* c.Get("db").(*pgxpool.Pool) are unchecked type assertions, which panic on
\* a key that was never set; no token or a refused token is answered 401
Middleware(r) ==
    /\ Running(r, "auth")
    /\ IF IsPublicPath(mloc[r].in.path)
       THEN CallNext(r, "auth", {})
       ELSE IF ~({"config", "db"} \subseteq mloc[r].keys)
       THEN ChainPanic(r, "auth")
       ELSE IF mloc[r].in.token # "jwt-valid"
       THEN ChainAnswer(r, "auth", 401)
       ELSE CallNext(r, "auth", {"user_id", "username", "claims"})

ChainHandler(r) ==
    /\ Running(r, "handler")
    /\ ChainAnswer(r, "handler", 200)

NextChain ==
    \/ \E r \in ChainReqs, in \in ChainInputs : ChainBegin(r, in)
    \/ \E r \in ChainReqs : RecoveryMiddleware(r)
    \/ \E r \in ChainReqs : RequestIDMiddleware(r)
    \/ \E r \in ChainReqs : RequestLoggingMiddleware(r)
    \/ \E r \in ChainReqs : SecurityHeadersMiddleware(r)
    \/ \E r \in ChainReqs : ChainRateLimit(r)
    \/ \E r \in ChainReqs : CORSMiddleware(r)
    \/ \E r \in ChainReqs : InjectDependencies(r)
    \/ \E r \in ChainReqs : Middleware(r)
    \/ \E r \in ChainReqs : ChainHandler(r)

InitWeb == now = 0 /\ InitOAuth /\ InitToken /\ InitTenant /\ InitRate /\ InitBurst /\ InitOps /\ InitHealth /\ InitRows /\ InitChain

(***************************************************************************)
(* Specifications                                                          *)
(***************************************************************************)
Init == InitDB /\ InitLogs /\ InitDeploy /\ InitWeb

InitQuietDB == InitDBQuiet /\ InitLogs /\ InitDeploy /\ InitWeb

SpecDB == Init /\ [][NextDB]_vars

\* every handler that has started runs to its end; nothing else is scheduled
FairSpecDB == SpecDB /\ WF_vars(NextDB)

SpecLogs == InitQuietDB /\ [][NextLogs]_vars

SpecDeploy == InitQuietDB /\ [][NextDeploy]_vars

SpecDeployConcurrent == InitQuietDB /\ [][NextDeployConcurrent]_vars

SpecOAuth == InitQuietDB /\ [][NextOAuth]_vars

SpecToken == InitQuietDB /\ [][NextToken]_vars

SpecTenant == InitQuietDB /\ [][NextTenant]_vars

SpecRate == InitQuietDB /\ [][NextRate]_vars

\* the sweeper is a goroutine started by NewRateLimiter that runs on every
\* tick of its ticker for as long as the process lives
FairSpecRate == SpecRate /\ WF_vars(cleanupLoop)

SpecChain == InitQuietDB /\ [][NextChain]_vars

SpecRows == InitQuietDB /\ [][NextRows]_vars

SpecHealth == InitQuietDB /\ [][NextHealth]_vars

SpecOps == InitQuietDB /\ [][NextOps]_vars

SpecBurst == InitQuietDB /\ [][NextBurst]_vars

\* every goroutine that can take a step eventually takes one; the client
\* need never disconnect
FairSpecLogs ==
    /\ SpecLogs
    /\ WF_vars(StreamLogsGetPods \/ StreamLogsSelect \/ StreamLogsClose)
    /\ WF_vars(HandlerCtxDone \/ HandlerRecv \/ HandlerChanClosed)
    /\ \A p \in Pods : WF_vars(PodOpen(p) \/ PodLoop(p) \/ PodRead(p) \/ PodSend(p))

(***************************************************************************)
(* Claims about deployment creation and rollback                           *)
(***************************************************************************)
\* requests that have inserted their deployment row for app a
Inserted(a) == {r \in Reqs : hloc[r].app = a /\ hloc[r].newID # NilID}

RowOfReq(r) == deployments[hloc[r].newID]

TerminalStatus == {"running", "ready", "failed"}

\* C1: k concurrent creations for an app whose highest version is L insert
\* rows with exactly the versions L+1 .. L+k (no duplicate, no gap).
C1_ConcurrentVersionsExact ==
    \A a \in Apps :
        LET rs == Inserted(a)
            L == Cardinality(RowsOf(deployments, a)) - Cardinality(rs)
        IN  (\A r \in rs : hloc[r].kind = "create" /\ ~hloc[r].readFailed)
                => {RowOfReq(r).version : r \in rs} = (L + 1)..(L + Cardinality(rs))

\* C2: creating a deployment is all-or-nothing and no state with only some
\* of its writes is observable: in every state an app's counter equals its
\* number of deployment rows, and an app with rows is in status deploying
\* with its pointer on one of its rows.
C2_CreateAllOrNothing ==
    \A a \in Apps :
        /\ appsTbl[a].deployment_count = Cardinality(RowsOf(deployments, a))
        /\ RowsOf(deployments, a) # {} =>
              /\ appsTbl[a].status = "deploying"
              /\ appsTbl[a].current_deployment_id \in RowsOf(deployments, a)

\* C3: at most one deploy operation of an app is in progress at any time.
C3_OneDeployPerApp ==
    \A r1, r2 \in Reqs :
        (r1 # r2 /\ InProgress(r1) /\ InProgress(r2)) => hloc[r1].app # hloc[r2].app

\* C4: a rollback to any prior deployment P inserts a row with P's image and
\* a version strictly higher than every version the app already had.
C4_RollbackHigherVersion ==
    \A r \in Reqs :
        (hloc[r].kind = "rollback" /\ hloc[r].newID # NilID) =>
            /\ RowOfReq(r).image = deployments[hloc[r].target].image
            /\ RowOfReq(r).version > hloc[r].maxAtInsert

\* C5: a creation that does not overlap another request of its app gets
\* version = (highest existing version) + 1, or 1 for the first deployment.
C5_SequentialVersionIsMaxPlusOne ==
    \A r \in Reqs :
        (hloc[r].kind = "create" /\ hloc[r].newID # NilID /\ ~hloc[r].overlapped) =>
            RowOfReq(r).version = hloc[r].maxAtInsert + 1

\* C6: every deployment that was created eventually reaches a terminal
\* status, and its app's status then equals it (the app leaves deploying).
C6_CreatedReachesTerminal ==
    \A r \in Reqs :
        [](hloc[r].code = 201 =>
             <>(/\ hloc[r].newID # NilID
                /\ RowOfReq(r).status \in TerminalStatus
                /\ appsTbl[hloc[r].app].status = RowOfReq(r).status))

(***************************************************************************)
(* Claims about the log stream                                             *)
(***************************************************************************)
ProducerFinished(p) == ppc[p] \in {"none", "done"}

\* C7: the output channel is closed only after every per-pod producer has
\* finished, so no producer ever sends on the closed channel.
C7_CloseAfterProducers ==
    chClosed => \A p \in Pods : ProducerFinished(p)

\* C8: once the client context is cancelled every per-pod producer
\* terminates (also one blocked on a full channel whose consumer has left)
\* and the output channel is closed exactly once.
C8_CancelStopsProducers ==
    /\ [](closeCount <= 1)
    /\ ctxDone ~> (closeCount = 1 /\ \A p \in Pods : ProducerFinished(p))

(***************************************************************************)
(* Claims about Deploy                                                     *)
(***************************************************************************)
\* the call of d has returned and no later call has started
LatestReturned(d) == dpc[d] = "done" /\ dloc[d].seq = ncalls

AllApplied(cfg) ==
    \A k \in Steps : cluster[k].present /\ cluster[k].spec = Generate(k, cfg)

\* C9: a Deploy whose cluster calls all get through, started from whatever
\* an earlier Deploy left behind (complete or partial), returns no error and
\* leaves all five resources present and equal to the desired objects.
C9_RetryConverges ==
    \A d \in Deployers :
        (LatestReturned(d) /\ ~dloc[d].faulted) =>
            /\ dloc[d].result.err = 0
            /\ AllApplied(dloc[d].cfg)

\* a retry with the same spec has returned after an earlier call failed at the deployment step
C9_Witness ==
    \E d, o \in Deployers :
        /\ o # d
        /\ dloc[o].result.err = DeploymentStep
        /\ dloc[o].cfg = dloc[d].cfg
        /\ LatestReturned(d)
        /\ dloc[d].seq = 2
        /\ ~dloc[d].faulted
        /\ dloc[d].result.err = 0

\* C10: when the apply of one resource fails, Deploy returns that error, has
\* attempted no later resource, and every resource it applied earlier in
\* the call is still present as applied.
C10_FailStopsAndKeeps ==
    \A d \in Deployers :
        (LatestReturned(d) /\ dloc[d].result.err # 0) =>
            /\ dloc[d].attempted = NsStep..dloc[d].result.err
            /\ dloc[d].result.err = dloc[d].step
            /\ \A j \in NsStep..(dloc[d].result.err - 1) :
                  cluster[j].present /\ cluster[j].spec = Generate(j, dloc[d].cfg)

\* a call has failed at the service step after applying namespace, secret and deployment
C10_Witness ==
    \E d \in Deployers :
        /\ LatestReturned(d)
        /\ dloc[d].result.err = ServiceStep
        /\ cluster[DeploymentStep].present
        /\ ~cluster[LastStep].present

\* C11: within one Deploy call the resources are written in the order
\* namespace, secret, deployment, service, ingress: a resource is written
\* only after the one before it has been written by the same call (the
\* secret: only once the namespace exists).
C11_ApplyOrder ==
    \A d \in Deployers :
        LET w == dloc[d].written IN
        \A i \in 1..Len(w) :
            /\ w[i] > NsStep => cluster[NsStep].present
            /\ w[i] > NsStep + 1 => \E j \in 1..(i - 1) : w[j] = w[i] - 1

\* a call has written all five resources
C11_Witness ==
    \E d \in Deployers : Len(dloc[d].written) = LastStep /\ dloc[d].written[LastStep] = LastStep

\* C12: when the readiness wait ends without the deployment being ready,
\* Deploy returns success=false with the namespace filled in and a nil
\* error, and every applied resource stays in place.
C12_TimeoutIsNotAnError ==
    [][\A d \in Deployers :
          (dpc[d] = "wait" /\ dpc'[d] = "done" /\ ~DeploymentReady(cluster[DeploymentStep])) =>
              /\ dloc'[d].result.returned
              /\ dloc'[d].result.err = 0
              /\ ~dloc'[d].result.success
              /\ dloc'[d].result.namespace = NamespaceForApp(dloc[d].cfg.name)
              /\ cluster' = cluster
              /\ AllApplied(dloc[d].cfg)']_vars

\* a call has returned success=false after a poll that saw the deployment not ready
C12_Witness ==
    \E d \in Deployers :
        /\ LatestReturned(d)
        /\ dloc[d].polls > 0
        /\ dloc[d].result.err = 0
        /\ ~dloc[d].result.success
        /\ ~DeploymentReady(cluster[DeploymentStep])

(***************************************************************************)
(* Claims about the OAuth callback                                         *)
(***************************************************************************)
\* the callback has answered with the login completed
Accepted(k) == opc[k] = "done" /\ oloc[k].status \in {200, 302}

\* C13: a state is accepted by at most one callback: when one callback was
\* accepted with a state, every other finished callback that carried the
\* same state was answered 400.
C13_StateAcceptedOnce ==
    \A k1, k2 \in Callbacks :
        (k1 # k2 /\ Accepted(k1) /\ opc[k2] = "done" /\ oloc[k2].state = oloc[k1].state)
            => oloc[k2].status = 400

\* C14: a callback that presented a stored state has deleted the row by the
\* time it answers, whatever it answers.
C14_CallbackConsumesState ==
    \A k \in Callbacks :
        (opc[k] = "done" /\ oloc[k].stored)
            => ~GetOAuthState(oauthStates, oloc[k].state).present

(***************************************************************************)
(* Claims about API token authentication                                   *)
(***************************************************************************)
\* C15: a token whose expires_at lay in the past when the handler tested it
\* is answered 401 and never reaches the next handler, whatever its
\* created_at.
C15_ExpiredTokenRejected ==
    \A q \in AuthReqs :
        (qpc[q] = "done" /\ qloc[q].row.present /\ qloc[q].row.hasExpiry
            /\ qloc[q].checkedAt > qloc[q].row.expiresAt)
            => (qloc[q].status = 401 /\ ~qloc[q].next)

(***************************************************************************)
(* Claims about apps, domains and ownership                                *)
(***************************************************************************)
\* the step in which request r answers
Answers(r) == apc[r] # "done" /\ apc'[r] = "done"

\* C16: a request whose INSERT hit a unique constraint is answered 409
\* (never 500): of two concurrent creations of the same app name by one
\* owner, or of the same domain, the loser gets 409.
C16_UniqueViolationIsConflict ==
    \A r \in WebReqs :
        (apc[r] = "done" /\ aloc[r].violation) => aloc[r].answer.status = 409

\* C17: when a creation of app n for user u answers, it answers 201 and has
\* added the one row (u, n) if u owned no app n, and answers 409 and has
\* added no row if u owned one; apps of other users do not matter.
C17_CreateAppExactlyWhenFree ==
    [][\A r \in WebReqs :
          (Answers(r) /\ aloc[r].kind = "createApp") =>
              IF ~UserNameTaken(ownedApps, aloc[r].user, aloc[r].name)
              THEN /\ aloc'[r].answer.status = 201
                   /\ \E a \in ownedApps' :
                          /\ a.user = aloc[r].user /\ a.name = aloc[r].name
                          /\ ownedApps' = ownedApps \cup {a}
              ELSE /\ aloc'[r].answer.status = 409
                   /\ ownedApps' = ownedApps]_vars

\* C18: no hostname has two rows, and a request that adds to an app it owns
\* a domain that already has a row is answered 409 and adds no row.
C18_HostnameAttachedOnce ==
    [][/\ \A d1, d2 \in domainsTbl' : d1.domain = d2.domain => d1 = d2
       /\ \A r \in WebReqs :
              (Answers(r) /\ aloc[r].kind = "addDomain" /\ apc[r] \in {"second", "write"}
                  /\ GetDomainByName(domainsTbl, aloc[r].host) # {})
                  => (aloc'[r].answer.status = 409 /\ domainsTbl' = domainsTbl)]_vars

\* rows that belong to other users than u
OthersApps(u) == {a \in ownedApps : a.user # u}

OthersDomains(u) == {d \in domainsTbl : \E a \in OthersApps(u) : a.id = d.app}

OthersDeployments(u) == {d \in depRows : \E a \in OthersApps(u) : a.id = d.app}

\* C19: a per-app request of user u for an app name u does not own is
\* answered 404 "app not found", whether or not another user owns that
\* name, and no step of a request of u changes an app, domain or deployment
\* of another user.
C19_CrossOwnerIsNotFound ==
    [][\A r \in WebReqs, u \in Owners :
          (apc'[r] # apc[r] /\ aloc'[r].user = u) =>
              /\ (apc'[r] = "done" /\ aloc'[r].kind # "createApp"
                     /\ aloc'[r].looked /\ ~aloc'[r].owned)
                     => aloc'[r].answer = AppNotFound
              /\ OthersApps(u)' = OthersApps(u)
              /\ OthersDomains(u)' = OthersDomains(u)
              /\ OthersDeployments(u)' = OthersDeployments(u)]_vars

\* a request for another user's app has been answered 404
C19_Witness ==
    \E r \in WebReqs :
        /\ apc[r] = "done" /\ aloc[r].kind # "createApp"
        /\ aloc[r].crossOwner /\ ~aloc[r].owned
        /\ aloc[r].answer = AppNotFound

(***************************************************************************)
(* Claims about the rate limiter                                           *)
(***************************************************************************)
\* C20: a request is answered 429 exactly when the bucket of its own
\* address holds no token at that moment; the refusal takes no time, carries
\* Retry-After: 1 and does not call next, a request let through does call
\* next, and neither touches the bucket or map entry of another address.
C20_RejectIffOwnBucketEmpty ==
    [][\A x \in RateReqs :
          /\ (rpc[x] = "getVisitor" /\ rpc'[x] = "allow") =>
                 /\ visitors'[rloc[x].ip].present
                 /\ rloc'[x].lim = visitors'[rloc[x].ip].lim
                 /\ \A ip \in IPs \ {rloc[x].ip} :
                        visitors'[ip].lim # rloc'[x].lim /\ visitors'[ip] = visitors[ip]
          /\ (rpc[x] = "allow" /\ rpc'[x] = "done") =>
                 /\ (rloc'[x].status = 429) <=> (Available(limiters[rloc[x].lim], now) < 1)
                 /\ rloc'[x].status = 429 =>
                        (rloc'[x].retryAfter = 1 /\ ~rloc'[x].next /\ now' = now)
                 /\ rloc'[x].status # 429 => rloc'[x].next
                 /\ visitors' = visitors
                 /\ \A l \in DOMAIN limiters :
                        l # rloc[x].lim => limiters'[l] = limiters[l]]_vars

\* a request has been refused while another address still has its tokens
C20_Witness ==
    \E x \in RateReqs, ip \in IPs :
        /\ rpc[x] = "done" /\ rloc[x].status = 429 /\ rloc[x].ip # ip
        /\ visitors[ip].present
        /\ Available(limiters[visitors[ip].lim], now) >= 1

(***************************************************************************)
(* Claims about the configured rate limit                                  *)
(***************************************************************************)
\* all requests sent so far arrived within one second
WithinOneSecond == bnow <= TicksPerSecond

\* C21 as stated: of any 300 requests of one client that arrive within at
\* most one second, at least one is answered 429 with Retry-After: 1.
C21_ThreeHundredInOneSecond ==
    (bsent >= 300 /\ WithinOneSecond) => bdenied

\* C21 amended: of any 301 requests of one client that arrive within at most
\* one second, at least one is answered 429 with Retry-After: 1 (a full
\* bucket of 200 and one second of refill let exactly 300 through).
C21_ThreeHundredOneInOneSecond ==
    (bsent >= 301 /\ WithinOneSecond) => bdenied

\* 301 requests have arrived within the second, 300 of them let through
C21_Witness ==
    /\ bsent = 301 /\ WithinOneSecond /\ bdenied
    /\ blim.tokens = 0 /\ blim.last = TicksPerSecond


(***************************************************************************)
(* C22: a scale request whose replicas value lies outside 0..10 is answered *)
(* 400 and never reaches the cluster; a scale request with replicas in      *)
(* 0..10 for an app the caller owns reaches the cluster with exactly that   *)
(* value, unless the cluster client cannot be built.                        *)
(***************************************************************************)
ScaleCalls(r) == {c \in clusterCalls : c.req = r /\ c.op = "scale"}

C22_ScaleRangeGuardsCluster ==
    \A r \in OpsReqs :
        opsLoc[r].in.kind = "scale" =>
            LET n == opsLoc[r].in.replicas
                inRange == n \in ScaleMin..ScaleMax
                owns == opsLoc[r].ownedAtArrival
            IN  /\ ~inRange => ScaleCalls(r) = {} /\ ~opsLoc[r].called
                /\ (~inRange /\ opsPc[r] = "done") => opsLoc[r].answer.status = 400
                /\ \A c \in ScaleCalls(r) : c.replicas = n /\ inRange
                /\ (inRange /\ opsPc[r] = "done" /\ owns) =>
                       \/ /\ ScaleCalls(r) # {}
                          /\ opsLoc[r].answer.status = 200 => opsReplicas \in ScaleMin..ScaleMax
                       \/ opsLoc[r].answer = Answer(500, "kubernetes not available")

C22_Witness ==
    /\ opsPc["o1"] = "done" /\ opsLoc["o1"].in.kind = "scale"
    /\ opsLoc["o1"].in.replicas = ScaleMax + 1 /\ opsLoc["o1"].answer.status = 400
    /\ opsPc["o2"] = "done" /\ opsLoc["o2"].in.kind = "scale"
    /\ opsLoc["o2"].in.replicas = ScaleMax /\ opsLoc["o2"].answer.status = 200
    /\ opsReplicas = ScaleMax
    /\ clusterCalls = {[req |-> "o2", op |-> "scale", app |-> FirstApp, replicas |-> ScaleMax]}


(***************************************************************************)
(* C23: a request whose body fails validation (app name, region or size,   *)
(* domain format, replicas range, missing image) is answered 400 and has   *)
(* changed neither the database nor the cluster.                           *)
(***************************************************************************)
FailsValidation(in) ==
    CASE in.kind = "createApp" ->
             \/ Len(in.appName) < NameMinLen \/ Len(in.appName) > NameMaxLen
             \/ ~appNameRegex(in.appName)
             \/ in.region # "" /\ in.region \notin validRegions
             \/ in.size # "" /\ in.size \notin validSizes
      [] in.kind = "updateApp" ->
             \/ in.region # "" /\ in.region \notin validRegions
             \/ in.size # "" /\ in.size \notin validSizes
      [] in.kind = "addDomain" -> ~domainRegex(in.domain)
      [] in.kind = "createDeployment" -> in.image = ""
      [] in.kind = "scale" -> in.replicas \notin ScaleMin..ScaleMax
      [] OTHER -> FALSE

\* the part of C23 about effects: an invalid request never writes
InvalidNeverWrites ==
    \A r \in OpsReqs :
        (opsPc[r] # "idle" /\ FailsValidation(opsLoc[r].in)) =>
            ~opsLoc[r].wrote /\ ~opsLoc[r].called /\ opsPc[r] \in {"lookup", "done"}

C23_InvalidIs400WithoutEffect ==
    \A r \in OpsReqs :
        (opsPc[r] # "idle" /\ FailsValidation(opsLoc[r].in)) =>
            /\ ~opsLoc[r].wrote /\ ~opsLoc[r].called
            /\ opsPc[r] = "done" => opsLoc[r].answer.status = 400


(***************************************************************************)
(* C24: every state-changing request that succeeded has appended an        *)
(* activity_logs row for itself, carrying an action code and an IP.        *)
(***************************************************************************)
Succeeded(r) ==
    /\ opsPc[r] = "done"
    /\ opsLoc[r].answer.status \in {200, 201, 204}

C24_SuccessWritesActivityLog ==
    \A r \in OpsReqs :
        (Succeeded(r) /\ opsLoc[r].in.kind \in StateChanging) =>
            \E row \in activityLogs :
                /\ row.req = r
                /\ row.action # ""
                /\ row.ip # ""


(***************************************************************************)
(* C25: the stored environment of an app is always, in full, the map of    *)
(* the last PUT that wrote it (never a mixture of two maps, no key of an   *)
(* earlier map survives), and GET with redacted=false answers exactly the  *)
(* map that was stored when it read the row.                               *)
(***************************************************************************)
C25_PutReplacesWholeMap ==
    /\ \A a \in opsApps : Decrypt(a.env) = a.lastPut
    /\ \A r \in OpsReqs :
          (opsLoc[r].in.kind = "envGet" /\ opsPc[r] = "done"
             /\ opsLoc[r].answer.status = 200) =>
              IF opsLoc[r].in.redacted
              THEN opsLoc[r].variables = Redact(opsLoc[r].seenPut)
              ELSE opsLoc[r].variables = opsLoc[r].seenPut
    /\ \A r \in OpsReqs :
          (opsLoc[r].in.kind = "envPut" /\ opsLoc[r].wrote) =>
              \E a \in opsApps : a.id = opsLoc[r].appID /\
                  \E o \in OpsReqs : /\ opsLoc[o].in.kind = "envPut" /\ opsLoc[o].wrote
                                     /\ a.lastPut = opsLoc[o].in.vars

C25_Witness ==
    /\ opsPc["o1"] = "done" /\ opsLoc["o1"].in.kind = "envPut"
    /\ opsLoc["o1"].in.vars = {<<"K2", "v2">>} /\ opsLoc["o1"].answer.status = 200
    /\ opsPc["o2"] = "done" /\ opsLoc["o2"].in.kind = "envGet"
    /\ ~opsLoc["o2"].in.redacted /\ opsLoc["o2"].answer.status = 200
    /\ opsLoc["o2"].variables = {<<"K2", "v2">>}


(***************************************************************************)
(* C26: when StreamLogs finds no pod for the app, no per-pod producer is   *)
(* started and the follow=true request is answered with a not-found client *)
(* error, never with a successful stream that carries no frame.            *)
(***************************************************************************)
\* the part of C26 about producers: without pods none is started
NoPodsNoProducer == NoPodsFound => \A p \in Pods : ppc[p] = "none"

C26_NoPodsIsNotFound ==
    NoPodsFound =>
        /\ \A p \in Pods : ppc[p] = "none"
        /\ cpc = "done" => /\ StreamAnswer.status = 404
                           /\ ~(StreamAnswer.status = 200 /\ StreamAnswer.frames = <<>>)


(***************************************************************************)
(* C27: for each pod, the frames put on the log channel are the lines read *)
(* from its stream, in order, none missing and none twice; the only line   *)
(* not yet on the channel is the one a producer is blocked sending.        *)
(***************************************************************************)
\* the frames of pod p the channel has carried, oldest first
SentOf(p) == SelectSeq(delivered \o logCh, LAMBDA f : f.pod = p)

InOrderNoGap(p) == \A i \in 1..Len(SentOf(p)) : SentOf(p)[i].line = i

\* the part of C27 that holds: order, no duplicate, the buffer bound, and no
\* loss while the producer lives
SentIsPrefixOfRead ==
    /\ Len(logCh) <= ChanCap
    /\ \A p \in Pods :
          /\ InOrderNoGap(p)
          /\ Len(SentOf(p)) = IF ppc[p] \in {"send", "panicked"}
                              THEN pread[p] - 1 ELSE pread[p]

C27_FramesAreLinesRead ==
    /\ Len(logCh) <= ChanCap
    /\ \A p \in Pods :
          /\ InOrderNoGap(p)
          /\ Len(SentOf(p)) = IF ppc[p] = "send" THEN pread[p] - 1 ELSE pread[p]


(***************************************************************************)
(* C28: GET /api/health answers 503 whenever the database or the cluster   *)
(* was not healthy when the handler looked, and 200 only when both were.   *)
(***************************************************************************)
C28_HealthIs503UnlessAllHealthy ==
    \A r \in HealthReqs :
        healthPc[r] = "done" =>
            /\ healthLoc[r].code \in {200, 503}
            /\ healthLoc[r].code = 200 <=>
                   (healthLoc[r].seenDB = "up" /\ healthLoc[r].seenK8s = "up")

\* what the handlers do guarantee: 503 exactly when the database ping failed
HealthFollowsPing ==
    \A r \in HealthReqs :
        healthPc[r] = "done" => (healthLoc[r].code = 503 <=> healthLoc[r].seenDB = "down")


(***************************************************************************)
(* C29: whenever the current-deployment pointer of an app changes, its new *)
(* value is the id of a row of that app that is already in the deployments *)
(* table before the step.                                                  *)
(***************************************************************************)
PointsAtInsertedRow(tbl, a, id) ==
    /\ id \in 1..Len(tbl)
    /\ tbl[id].app_id = a

C29_PointerAfterInsert ==
    [][\A a \in Apps :
          appsTbl'[a].current_deployment_id # appsTbl[a].current_deployment_id =>
              PointsAtInsertedRow(deployments, a, appsTbl'[a].current_deployment_id)]_vars

C29_Witness ==
    \E r \in Reqs :
        /\ hpc[r] = "done" /\ hloc[r].code = 201 /\ hloc[r].kind = "rollback"
        /\ appsTbl[hloc[r].app].current_deployment_id = hloc[r].newID
        /\ PointsAtInsertedRow(deployments, hloc[r].app, hloc[r].newID)


(***************************************************************************)
(* C30: a deployment row whose status is terminal (running, ready or       *)
(* failed) keeps its status, version and image in every later step; only   *)
(* message, error and the timestamps may still change.                     *)
(***************************************************************************)
\* the part of C30 about version and image: no statement ever changes them
VersionAndImageKept ==
    [][\A id \in DeploymentIDs :
          /\ depTbl'[id].version = depTbl[id].version
          /\ depTbl'[id].image = depTbl[id].image]_vars

C30_TerminalRowIsFrozen ==
    [][\A id \in DeploymentIDs :
          depTbl[id].status \in TerminalStatus =>
              /\ depTbl'[id].status = depTbl[id].status
              /\ depTbl'[id].version = depTbl[id].version
              /\ depTbl'[id].image = depTbl[id].image]_vars


(***************************************************************************)
(* C31: once every producer that StreamLogs started has returned nil (its  *)
(* pod stream ended) and StreamLogs waits in its select, StreamLogs        *)
(* eventually returns and the output channel gets closed, without any      *)
(* cancellation by the caller.                                             *)
(***************************************************************************)
AllProducersEndedCleanly ==
    /\ spc = "select"
    /\ errCh = {}
    /\ \A p \in Pods : ppc[p] \in {"none", "done"}

C31_FinishedProducersCloseChannel == AllProducersEndedCleanly ~> chClosed


(***************************************************************************)
(* C32: once every creation or rollback for an app has completed (none is  *)
(* in progress, none met a database error), the app's                      *)
(* current_deployment_id refers to a deployment row of that app that       *)
(* carries the app's highest version.                                      *)
(***************************************************************************)
SucceededOn(a) == {r \in Reqs : hpc[r] = "done" /\ hloc[r].app = a /\ hloc[r].code = 201}

PointerIsHighestVersion(a) ==
    LET id == appsTbl[a].current_deployment_id IN
    /\ PointsAtInsertedRow(deployments, a, id)
    /\ deployments[id].version = MaxVersion(deployments, a)

C32_PointerIsHighestVersion ==
    \A a \in Apps :
        (/\ \A r \in Reqs : ~InProgress(r)
         /\ dbFaults = 0
         /\ SucceededOn(a) # {}) => PointerIsHighestVersion(a)


(***************************************************************************)
(* C33: the functions a request has entered are always an initial part of  *)
(* one fixed order, and a request answered by the rate limiter (429) or by *)
(* auth (401) never enters the handler.                                    *)
(***************************************************************************)
IsPrefix(s, t) == Len(s) <= Len(t) /\ \A i \in 1..Len(s) : s[i] = t[i]

Entered(r, name) == \E i \in 1..Len(mloc[r].passed) : mloc[r].passed[i] = name

RejectedNeverHandled ==
    \A r \in ChainReqs :
        /\ mloc[r].status \in {429, 401} => ~Entered(r, "handler")
        /\ Entered(r, "handler") =>
              /\ mloc[r].in.allowed
              /\ IsPublicPath(mloc[r].in.path) \/ mloc[r].in.token = "jwt-valid"

\* C33 as stated: recovery, request-id, request-logging, security-headers,
\* rate-limit, CORS, auth, dependency-injection, handler, with auth entered
\* before dependency injection
C33_AuthBeforeInjection ==
    /\ \A r \in ChainReqs :
          IsPrefix(mloc[r].passed,
                   <<"recovery", "request-id", "request-logging", "security-headers",
                     "rate-limit", "cors", "auth", "dependency-injection", "handler">>)
    /\ RejectedNeverHandled

\* C33 amended: the order is recovery, request-id, request-logging,
\* security-headers, rate-limit, CORS, dependency-injection, auth, handler:
\* dependency injection is entered before auth, and a request answered by the
\* rate limiter or by auth never enters the handler
C33_InjectionBeforeAuth ==
    /\ \A r \in ChainReqs :
          IsPrefix(mloc[r].passed,
                   <<"recovery", "request-id", "request-logging", "security-headers",
                     "rate-limit", "cors", "dependency-injection", "auth", "handler">>)
    /\ RejectedNeverHandled

\* one request went through the whole stack with a valid token while another
\* was stopped by auth
C33_Witness ==
    \E r, q \in ChainReqs :
        /\ mpc[r] = "done" /\ mloc[r].status = 200 /\ Entered(r, "handler")
        /\ ~IsPublicPath(mloc[r].in.path)
        /\ mpc[q] = "done" /\ mloc[q].status = 401 /\ Entered(q, "dependency-injection")


(***************************************************************************)
(* C34: a Deploy call that has returned reports success=true exactly when  *)
(* the last status poll of its readiness wait read a deployment with       *)
(* readyReplicas >= spec.replicas; a call whose polls never read a ready   *)
(* deployment, or that failed before the wait, never reports success.      *)
(***************************************************************************)
PollSawReady(d) ==
    /\ dloc[d].polled.present
    /\ dloc[d].polled.readyReplicas >= dloc[d].polled.spec.replicas

C34_SuccessIffPollSawReady ==
    \A d \in Deployers :
        dloc[d].result.returned =>
            /\ dloc[d].result.success <=> PollSawReady(d)
            /\ dloc[d].result.success => dloc[d].result.err = 0

\* both outcomes of the wait: a call returned success after a poll that read
\* the deployment ready, and a call returned success=false after a poll that
\* read it not ready
C34_Witness ==
    \E d, e \in Deployers :
        /\ dloc[d].result.returned /\ dloc[d].result.success /\ PollSawReady(d)
        /\ dloc[e].result.returned /\ ~dloc[e].result.success
        /\ dloc[e].polls > 0 /\ dloc[e].polled.present /\ ~PollSawReady(e)


(***************************************************************************)
(* C35: the user upsert of a callback always succeeds and leaves the row   *)
(* of the external user in the table: a callback that reaches the upsert,  *)
(* also one whose lookup ran while another first-time callback for the     *)
(* same external id was in progress, is answered 200 or 302, never 500.    *)
(***************************************************************************)
C35_UpsertIsAtomic ==
    [][\A k \in Callbacks :
          (opc[k] = "upsert" /\ opc'[k] = "done") =>
              /\ oloc'[k].status \in {200, 302}
              /\ Exchange(oloc[k].code) \in users']_vars


(***************************************************************************)
(* C36: while the API server has failed no round-trip, no Deploy call      *)
(* returns an error: none fails because its Create found the object        *)
(* already there or its Update carried a stale resourceVersion, which only *)
(* the writes of another call can bring about.                             *)
(***************************************************************************)
C36_ConcurrentDeploysDoNotCollide ==
    \A d \in Deployers :
        (k8sFaults = 0 /\ dloc[d].result.returned) => dloc[d].result.err = 0


(***************************************************************************)
(* C37: a creation whose read of the latest deployment failed never        *)
(* inserts a row with version 1 for an app that had deployments when the   *)
(* row was inserted.                                                       *)
(***************************************************************************)
C37_ReadErrorIsNotEmptyHistory ==
    \A r \in Reqs :
        (/\ hloc[r].kind = "create"
         /\ hloc[r].readFailed
         /\ hloc[r].newID # NilID
         /\ hloc[r].maxAtInsert >= 1) => RowOfReq(r).version # 1


(***************************************************************************)
(* C38: when DELETE /api/apps/:name has been answered 204, the cluster has *)
(* received from that request the call that deletes the app's namespace.   *)
(***************************************************************************)
C38_DeleteRequestsNamespaceDeletion ==
    \A r \in WebReqs :
        (apc[r] = "done" /\ aloc[r].kind = "deleteApp" /\ aloc[r].answer.status = 204) =>
            \E call \in clusterCalls : call.op = "deleteApp" /\ call.req = r


(***************************************************************************)
(* C39: the visitors map is changed by one caller at a time.  A lookup     *)
(* creates a bucket only when the map has none for the address and         *)
(* otherwise hands out the bucket that is stored; no step is both a lookup *)
(* and an eviction; and as long as no entry can have been evicted (the     *)
(* clock has not passed StaleAfter) all requests of one address hold the   *)
(* same bucket, the one in the map.                                        *)
(***************************************************************************)
LookupStep(x) == rpc[x] = "getVisitor" /\ rpc'[x] = "allow"

Evicts == \E ip \in IPs : visitors[ip].present /\ ~visitors'[ip].present

LookupIsAtomic(x) ==
    LET ip == rloc[x].ip IN
    /\ visitors[ip].present =>
          /\ limiters' = limiters
          /\ rloc'[x].lim = visitors[ip].lim
    /\ ~visitors[ip].present =>
          /\ Len(limiters') = Len(limiters) + 1
          /\ rloc'[x].lim = Len(limiters')
    /\ visitors'[ip].present /\ visitors'[ip].lim = rloc'[x].lim
    /\ ~Evicts

SameBucket ==
    now <= StaleAfter =>
        \A x, y \in RateReqs :
            (rloc[x].lim # 0 /\ rloc[y].lim # 0 /\ rloc[x].ip = rloc[y].ip) =>
                /\ rloc[x].lim = rloc[y].lim
                /\ visitors[rloc[x].ip].present
                /\ visitors[rloc[x].ip].lim = rloc[x].lim

C39_OneBucketPerAddress ==
    [][/\ \A x \in RateReqs : LookupStep(x) => LookupIsAtomic(x)
       /\ Evicts => rpc' = rpc /\ rloc' = rloc /\ limiters' = limiters
       /\ SameBucket']_vars

\* two requests of one new address are in the middleware at once, both past
\* the lookup and before Allow, and hold the one bucket of the map
C39_Witness ==
    \E x, y \in RateReqs :
        /\ x # y
        /\ rpc[x] = "allow" /\ rpc[y] = "allow"
        /\ rloc[x].ip = rloc[y].ip
        /\ rloc[x].lim = rloc[y].lim
        /\ Len(limiters) = 1
        /\ now <= StaleAfter


(***************************************************************************)
(* C40: a visitor whose last request is more than StaleAfter old is        *)
(* eventually removed from the map (unless a new request refreshes it      *)
(* first), and no step removes a visitor whose last request is at most     *)
(* StaleAfter old.                                                         *)
(***************************************************************************)
Stale(ip) == visitors[ip].present /\ now - visitors[ip].lastSeen > StaleAfter

OnlyStaleIsRemoved ==
    \A ip \in IPs : (visitors[ip].present /\ ~visitors'[ip].present) => Stale(ip)

C40_StaleBucketIsSwept ==
    /\ [][OnlyStaleIsRemoved]_vars
    /\ \A ip \in IPs : Stale(ip) ~> ~Stale(ip)

\* an address that was served has lost its entry to the sweeper while another
\* address, seen more recently, kept its entry
C40_Witness ==
    \E x \in RateReqs, ip \in IPs :
        /\ rloc[x].lim # 0
        /\ ~visitors[rloc[x].ip].present
        /\ visitors[ip].present
        /\ now - visitors[ip].lastSeen <= StaleAfter

====
